---- MODULE Spec2Model ----
(***************************************************************************)
(* Model of the pp_portfolio ingestion coordinator                         *)
(* (custom_components/pp_portfolio/coordinator.py).                        *)
(*                                                                         *)
(* Text is modelled by TLA+ strings, processed character by character.     *)
(* Python floats are modelled by exact rationals <<n, d>> in lowest terms  *)
(* with d > 0; the inputs are chosen so that no product leaves TLC's       *)
(* 32-bit integers.                                                        *)
(***************************************************************************)
EXTENDS Integers, Sequences, FiniteSets, TLC

\* ------------------------------------------------------------------------
\* Python values

\* None where a number is expected (a function returning None, a quote field
\* that is absent): the empty tuple, which no rational <<n, d>> equals
None == <<>>

IsNone(v) == v = None

\* ------------------------------------------------------------------------
\* Text primitives (str methods used by the code)

Min(a, b) == IF a < b THEN a ELSE b

CharAt(s, i) == SubSeq(s, i, i)

\* a sequence given as a function, as the tuple of its values
AsSeq(f) == SubSeq(f, 1, Len(f))

LowerAlpha == "abcdefghijklmnopqrstuvwxyzäöü"

UpperAlpha == "ABCDEFGHIJKLMNOPQRSTUVWXYZÄÖÜ"

Digits == "0123456789"

\* the whitespace str.strip() removes (U+00A0 included, as in Python 3)
Whitespace == " \t\n\r "

\* str.find of a one-character string: 1-based position, 0 when absent
IndexIn(c, alpha) ==
  IF \E i \in 1..Len(alpha) : CharAt(alpha, i) = c
  THEN CHOOSE i \in 1..Len(alpha) :
         CharAt(alpha, i) = c /\ \A j \in 1..(i - 1) : CharAt(alpha, j) # c
  ELSE 0

LowerChar(c) ==
  LET i == IndexIn(c, UpperAlpha) IN IF i = 0 THEN c ELSE CharAt(LowerAlpha, i)

UpperChar(c) ==
  LET i == IndexIn(c, LowerAlpha) IN IF i = 0 THEN c ELSE CharAt(UpperAlpha, i)

RECURSIVE Lower(_)
\* str.lower
Lower(s) == IF s = "" THEN "" ELSE LowerChar(Head(s)) \o Lower(Tail(s))

RECURSIVE Upper(_)
\* str.upper
Upper(s) == IF s = "" THEN "" ELSE UpperChar(Head(s)) \o Upper(Tail(s))

IsSpace(c) == IndexIn(c, Whitespace) # 0

RECURSIVE LStrip(_)
LStrip(s) == IF s # "" /\ IsSpace(Head(s)) THEN LStrip(Tail(s)) ELSE s

RECURSIVE RStrip(_)
RStrip(s) ==
  IF s # "" /\ IsSpace(CharAt(s, Len(s)))
  THEN RStrip(SubSeq(s, 1, Len(s) - 1)) ELSE s

\* str.strip
Strip(s) == RStrip(LStrip(s))

\* sub in s
Contains(s, sub) ==
  \E i \in 1..(Len(s) - Len(sub) + 1) : SubSeq(s, i, i + Len(sub) - 1) = sub

\* s.endswith(suf)
EndsWith(s, suf) ==
  Len(s) >= Len(suf) /\ SubSeq(s, Len(s) - Len(suf) + 1, Len(s)) = suf

\* s.count(c) for a one-character c
Count(s, c) == Cardinality({i \in 1..Len(s) : CharAt(s, i) = c})

\* s.rfind(c) for a one-character c: 1-based, 0 when absent
RFind(s, c) ==
  IF Count(s, c) = 0 THEN 0
  ELSE CHOOSE i \in 1..Len(s) :
         CharAt(s, i) = c /\ \A j \in (i + 1)..Len(s) : CharAt(s, j) # c

RECURSIVE ReplaceChar(_, _, _)
\* s.replace(c, r) for a one-character c
ReplaceChar(s, c, r) ==
  IF s = "" THEN ""
  ELSE (IF Head(s) = c THEN r ELSE Head(s)) \o ReplaceChar(Tail(s), c, r)

IsDigit(c) == IndexIn(c, Digits) # 0

AllDigits(s) == \A i \in 1..Len(s) : IsDigit(CharAt(s, i))

RECURSIVE DigitsToInt(_, _)
DigitsToInt(s, acc) ==
  IF s = "" THEN acc
  ELSE DigitsToInt(Tail(s), acc * 10 + (IndexIn(Head(s), Digits) - 1))

RECURSIVE Pow10(_)
Pow10(k) == IF k = 0 THEN 1 ELSE 10 * Pow10(k - 1)

RECURSIVE IntToStr(_)
\* str(n) / "%d" for n >= 0
IntToStr(n) ==
  IF n < 10 THEN CharAt(Digits, n + 1)
  ELSE IntToStr(n \div 10) \o CharAt(Digits, (n % 10) + 1)

\* ------------------------------------------------------------------------
\* Numbers: exact rationals <<numerator, denominator>>

Abs(n) == IF n < 0 THEN 0 - n ELSE n

RECURSIVE GCD(_, _)
GCD(a, b) == IF b = 0 THEN a ELSE GCD(b, a % b)

Rat(n, d) ==
  LET g == GCD(Abs(n), d) IN
  IF n = 0 THEN <<0, 1>> ELSE <<(Abs(n) \div g) * (IF n < 0 THEN -1 ELSE 1), d \div g>>

Zero == <<0, 1>>

Num(n) == <<n, 1>>

\* a + b over the least common denominator
add_over(a, b, g) == Rat(a[1] * (b[2] \div g) + b[1] * (a[2] \div g), (a[2] \div g) * b[2])

RAdd(a, b) == add_over(a, b, GCD(a[2], b[2]))

RNeg(a) == <<0 - a[1], a[2]>>

RSub(a, b) == RAdd(a, RNeg(b))

\* a * b with the common factors g of a's numerator and b's denominator and
\* h of b's numerator and a's denominator taken out first
mul_reduced(a, b, g, h) ==
  Rat((a[1] \div g) * (b[1] \div h), (a[2] \div h) * (b[2] \div g))

RMul(a, b) ==
  IF a[1] = 0 \/ b[1] = 0 THEN Zero
  ELSE mul_reduced(a, b, GCD(Abs(a[1]), b[2]), GCD(Abs(b[1]), a[2]))

\* a / b for b # 0
RDiv(a, b) == IF b[1] > 0 THEN RMul(a, <<b[2], b[1]>>) ELSE RMul(a, <<0 - b[2], 0 - b[1]>>)

RLeq(a, b) == a[1] * b[2] <= b[1] * a[2]

RLess(a, b) == a[1] * b[2] < b[1] * a[2]

\* Python truthiness of a number or None
Truthy(v) == ~IsNone(v) /\ v # Zero

\* the sign-less text of a numeric literal
unsigned(s) == IF s # "" /\ (Head(s) = "-" \/ Head(s) = "+") THEN Tail(s) ELSE s

negative(s) == s # "" /\ Head(s) = "-"

\* the value of the digits ip before and fp after the decimal point
float_digits(ip, fp, neg) ==
  IF (ip = "" /\ fp = "") \/ ~AllDigits(ip) \/ ~AllDigits(fp) THEN None
  ELSE IF neg THEN Rat(0 - DigitsToInt(ip \o fp, 0), Pow10(Len(fp)))
  ELSE Rat(DigitsToInt(ip \o fp, 0), Pow10(Len(fp)))

\* the value of the sign-less literal u whose decimal point is at p (0: none)
float_point(u, p, neg) ==
  float_digits(IF p = 0 THEN u ELSE SubSeq(u, 1, p - 1),
               IF p = 0 THEN "" ELSE SubSeq(u, p + 1, Len(u)), neg)

float_stripped(s) == float_point(unsigned(s), IndexIn(".", unsigned(s)), negative(s))

\* float(s): a decimal literal [+-]digits[.digits] (exponent, inf and nan
\* forms are outside the modelled texts); None stands for ValueError
PyFloat(txt) == float_stripped(Strip(txt))

RECURSIVE significant(_)
\* the digits u without leading zeros
significant(u) == IF Len(u) > 1 /\ Head(u) = "0" THEN significant(Tail(u)) ELSE u

\* an integer of any size: its sign and its decimal digits
PyLong(neg, digits) == [neg |-> neg /\ digits # "0", digits |-> digits]

\* the integer n when it has at most nine digits
Narrow(n) == IF n.neg THEN 0 - DigitsToInt(n.digits, 0) ELSE DigitsToInt(n.digits, 0)

RECURSIVE Zeros(_)
Zeros(k) == IF k = 0 THEN "" ELSE "0" \o Zeros(k - 1)

\* a * 10^k for a >= 0
Shift(a, k) == IF a = "0" THEN a ELSE a \o Zeros(k)

RECURSIVE digits_leq(_, _)
\* a <= b for digit texts of one length
digits_leq(a, b) ==
  IF a = "" THEN TRUE
  ELSE IF Head(a) # Head(b) THEN IndexIn(Head(a), Digits) < IndexIn(Head(b), Digits)
  ELSE digits_leq(Tail(a), Tail(b))

\* a <= b for the digits of two integers >= 0
NatLeq(a, b) == Len(a) < Len(b) \/ (Len(a) = Len(b) /\ digits_leq(a, b))

int_digits(u, neg) ==
  IF u = "" \/ ~AllDigits(u) THEN None ELSE <<PyLong(neg, significant(u))>>

int_stripped(s) == int_digits(unsigned(s), negative(s))

\* int(s): [+-]digits, as <<n>> with n an integer of any size; None stands
\* for ValueError
PyInt(txt) == int_stripped(Strip(txt))

\* the separator rewriting of _parse_num on the cleaned text s
separators(s, hasC, hasD) ==
  IF hasC /\ hasD
  THEN IF RFind(s, ",") < RFind(s, ".")
       THEN ReplaceChar(s, ",", "")
       ELSE ReplaceChar(ReplaceChar(s, ".", ""), ",", ".")
  ELSE IF hasC /\ ~hasD
       THEN ReplaceChar(ReplaceChar(s, ".", ""), ",", ".")
       ELSE ReplaceChar(s, ",", "")

\* try: float(s)  except ValueError: 0.0
float_or_zero(f) == IF IsNone(f) THEN Zero ELSE f

num_cleaned(s) == float_or_zero(PyFloat(separators(s, Contains(s, ","), Contains(s, "."))))

num_stripped(s) ==
  IF s = "" \/ s = "-" THEN Zero
  ELSE num_cleaned(Strip(ReplaceChar(ReplaceChar(ReplaceChar(s, "€", ""), "%", ""), " ", " ")))

\* _parse_num (its callers always pass a str, never None)
parse_num(txt) == num_stripped(Strip(txt))

\* ------------------------------------------------------------------------
\* Delimited text.  A text file is the sequence of its lines (str.splitlines);
\* the modelled texts hold no quote characters, so csv.reader yields one row
\* per line, split at the delimiter, and [] for an empty line.

RECURSIVE Split(_, _)
\* one csv.reader row
Split(line, delim) ==
  IF line = "" THEN <<>>
  ELSE LET p == IndexIn(delim, line) IN
       IF p = 0 THEN <<line>>
       ELSE IF p = Len(line) THEN <<SubSeq(line, 1, p - 1), "">>
       ELSE <<SubSeq(line, 1, p - 1)>> \o Split(SubSeq(line, p + 1, Len(line)), delim)

RECURSIVE SumSeq(_)
SumSeq(ns) == IF ns = <<>> THEN 0 ELSE Head(ns) + SumSeq(Tail(ns))

\* sample.count(c) over the sample's lines
SampleCount(sample, c) == SumSeq(AsSeq([i \in 1..Len(sample) |-> Count(sample[i], c)]))

DelimiterCandidates == <<";", ",", "\t">>

\* csv.Sniffer().sniff(sample, delimiters=";,\t"): the one candidate that
\* occurs equally often, and at least once, on every line; <<>> when the
\* sniffer raises.  (Texts in which two candidates are both regular are
\* outside the modelled files.)
Sniff(sample) ==
  LET regular(c) == /\ sample # <<>>
                    /\ Count(sample[1], c) > 0
                    /\ \A i \in 1..Len(sample) : Count(sample[i], c) = Count(sample[1], c)
      found == {k \in 1..Len(DelimiterCandidates) : regular(DelimiterCandidates[k])}
  IN IF Cardinality(found) = 1
     THEN <<DelimiterCandidates[CHOOSE k \in found : TRUE]>>
     ELSE <<>>

\* _detect_delimiter
detect_delimiter(sample) ==
  LET sn == Sniff(sample) IN
  IF sn # <<>> THEN sn[1]
  ELSE IF SampleCount(sample, ";") >= SampleCount(sample, ",") /\ SampleCount(sample, ";") > 0
       THEN ";"
  ELSE IF SampleCount(sample, ",") > 0 THEN ","
  ELSE IF SampleCount(sample, "\t") > 0 THEN "\t"
  ELSE ";"

\* raw.splitlines()[:5]
SampleLines == 5

Sample(lines) == SubSeq(lines, 1, Min(SampleLines, Len(lines)))

\* list(csv.reader(io.StringIO(raw), delimiter=delim))
CsvRows(lines, delim) == AsSeq([i \in 1..Len(lines) |-> Split(lines[i], delim)])

\* any(r) for a row of cells
AnyCell(r) == \E i \in 1..Len(r) : r[i] # ""

\* _norm
norm(s) == Lower(Strip(s))

\* HEADER_ALIASES
HEADER_ALIASES ==
  [name |-> <<"name", "wertpapier", "wertpapiername", "security", "instrument">>,
   ticker |-> <<"ticker", "ticker-symbol", "symbol", "isin">>,
   quantity |-> <<"bestand", "stück", "stueck", "menge", "anzahl", "quantity", "shares">>,
   price |-> <<"kurs", "preis", "price">>,
   cost |-> <<"einstandspreis", "einstand", "investiert", "kaufwert", "einstandswert",
              "cost", "cost basis", "purchase value">>,
   value |-> <<"marktwert", "wert", "aktueller wert", "positionswert", "market value",
               "value", "bewertung">>,
   gain_abs |-> <<"gewinn/verlust", "gewinn", "verlust", "p&l", "gain", "profit">>,
   gain_pct |-> <<"gewinn/verlust %", "gewinn %", "verlust %", "p&l %", "gain %",
                  "performance %">>,
   currency |-> <<"währung", "currency">>]

InSeq(x, seq) == \E i \in 1..Len(seq) : seq[i] = x

\* list.index, 1-based; 0 when absent
IndexOf(x, seq) ==
  IF InSeq(x, seq)
  THEN CHOOSE i \in 1..Len(seq) : seq[i] = x /\ \A j \in 1..(i - 1) : seq[j] # x
  ELSE 0

RECURSIVE first_index(_, _, _)
\* the first position, from i on, of an entry of lower that is one of
\* aliases; 0 when there is none
first_index(lower, aliases, i) ==
  IF i > Len(lower) THEN 0
  ELSE IF InSeq(lower[i], aliases) THEN i
  ELSE first_index(lower, aliases, i + 1)

\* [_norm(h) for h in headers]
normed(headers) == AsSeq([i \in 1..Len(headers) |-> norm(headers[i])])

header_columns(lower) ==
  [name |-> first_index(lower, HEADER_ALIASES.name, 1),
   ticker |-> first_index(lower, HEADER_ALIASES.ticker, 1),
   quantity |-> first_index(lower, HEADER_ALIASES.quantity, 1),
   price |-> first_index(lower, HEADER_ALIASES.price, 1),
   cost |-> first_index(lower, HEADER_ALIASES.cost, 1),
   value |-> first_index(lower, HEADER_ALIASES.value, 1),
   gain_abs |-> first_index(lower, HEADER_ALIASES.gain_abs, 1),
   gain_pct |-> first_index(lower, HEADER_ALIASES.gain_pct, 1),
   currency |-> first_index(lower, HEADER_ALIASES.currency, 1)]

\* _header_map: canonical field -> 1-based column, 0 when the field is absent
header_map(headers) == header_columns(normed(headers))

\* ------------------------------------------------------------------------
\* Results

EmptyTotals == [value |-> Zero, cost |-> Zero, gain_abs |-> Zero, gain_pct |-> Zero]

\* {"holdings": [], "totals": {"value":0.0,"cost":0.0,"gain_abs":0.0,"gain_pct":0.0}}
EmptyResult == [holdings |-> <<>>, totals |-> EmptyTotals]

\* what a parser hands back: the data it returns (or raised = TRUE when an
\* exception leaves it) and the status record as it left it
Returned(data, st) == [raised |-> FALSE, data |-> data, status |-> st]

Raised(st) == [raised |-> TRUE, data |-> EmptyResult, status |-> st]

RECURSIVE sum_between(_, _, _, _)
\* the sum of one field over hs[lo..hi]; the arithmetic is exact, so the
\* sum is gathered by halves
sum_between(hs, f, lo, hi) ==
  IF lo > hi THEN Zero
  ELSE IF lo = hi THEN hs[lo][f]
  ELSE RAdd(sum_between(hs, f, lo, (lo + hi) \div 2),
            sum_between(hs, f, (lo + hi) \div 2 + 1, hi))

\* the running += of one field over the holdings
SumField(hs, f) == sum_between(hs, f, 1, Len(hs))

\* (gain / cost * 100.0) if cost else 0.0
GainPct(gain, cost) == IF cost # Zero THEN RMul(RDiv(gain, cost), Num(100)) ELSE Zero

\* the totals of a parser that sums value, cost and gain_abs
summed_totals(value, cost, gain) ==
  [value |-> value, cost |-> cost, gain_abs |-> gain, gain_pct |-> GainPct(gain, cost)]

\* ------------------------------------------------------------------------
\* Holdings CSV

\* get(key) of _read_csv
csv_get(r, col) == IF col # 0 /\ col <= Len(r) THEN r[col] ELSE ""

\* a or b, for texts
OrText(a, b) == IF a # "" THEN a ELSE b

\* the holding dict of _read_csv
csv_record(name, ticker, qty, price, value, cost, gain_abs, gain_pct, currency) ==
  [name |-> name,
   ticker |-> OrText(ticker, name),
   quantity |-> qty,
   price |-> price,
   value |-> value,
   cost |-> cost,
   gain_abs |-> gain_abs,
   gain_pct |-> gain_pct,
   currency |-> OrText(currency, "EUR")]

\* if cost == 0.0 and value and gain_abs: cost = value - gain_abs
csv_cost(name, ticker, qty, price, value, cost, gain_abs, gain_pct, currency) ==
  csv_record(name, ticker, qty, price, value,
             IF cost = Zero /\ value # Zero /\ gain_abs # Zero THEN RSub(value, gain_abs) ELSE cost,
             gain_abs, gain_pct, currency)

\* a gain that is recomputed even when the file supplies one
csv_gain_always(name, ticker, qty, price, value, cost, gain_abs, gain_pct, currency) ==
  csv_cost(name, ticker, qty, price, value, cost,
           IF value # Zero /\ cost # Zero THEN RSub(value, cost) ELSE gain_abs,
           gain_pct, currency)

\* if gain_abs == 0.0 and value and cost: gain_abs = value - cost
csv_gain(name, ticker, qty, price, value, cost, gain_abs, gain_pct, currency) ==
  csv_cost(name, ticker, qty, price, value, cost,
           IF gain_abs = Zero /\ value # Zero /\ cost # Zero THEN RSub(value, cost) ELSE gain_abs,
           gain_pct, currency)

\* if value == 0.0 and qty * price > 0: value = qty * price
csv_value(name, ticker, qty, price, value, cost, gain_abs, gain_pct, currency) ==
  csv_gain(name, ticker, qty, price,
           IF value = Zero /\ RLess(Zero, RMul(qty, price)) THEN RMul(qty, price) ELSE value,
           cost, gain_abs, gain_pct, currency)

\* one data row of _read_csv
csv_holding(r, mapping) ==
  csv_value(OrText(csv_get(r, mapping.name), "Unbekannt"),
            csv_get(r, mapping.ticker),
            parse_num(csv_get(r, mapping.quantity)),
            parse_num(csv_get(r, mapping.price)),
            parse_num(csv_get(r, mapping.value)),
            parse_num(csv_get(r, mapping.cost)),
            parse_num(csv_get(r, mapping.gain_abs)),
            parse_num(csv_get(r, mapping.gain_pct)),
            Strip(csv_get(r, mapping.currency)))

RECURSIVE csv_between(_, _, _, _)
\* the holdings of rows[lo..hi], in the order of the rows, gathered by halves
csv_between(rows, mapping, lo, hi) ==
  IF lo > hi THEN <<>>
  ELSE IF lo = hi
  THEN (IF AnyCell(rows[lo]) THEN <<csv_holding(rows[lo], mapping)>> ELSE <<>>)
  ELSE csv_between(rows, mapping, lo, (lo + hi) \div 2)
       \o csv_between(rows, mapping, (lo + hi) \div 2 + 1, hi)

\* the row loop of _read_csv over rows[1:]
csv_holdings(rows, mapping) == csv_between(rows, mapping, 1, Len(rows))

ValueBearing == {"value", "quantity", "price", "cost", "gain_abs", "gain_pct"}

\* what _read_csv returns for the holdings it built
csv_result(holdings, st) ==
  Returned([holdings |-> holdings,
            totals |-> summed_totals(SumField(holdings, "value"), SumField(holdings, "cost"),
                                     SumField(holdings, "gain_abs"))],
           st)

\* _read_csv from the header mapping on
csv_mapped(rows, mapping, st) ==
  csv_result(csv_holdings(Tail(rows), mapping),
             IF \E k \in ValueBearing : mapping[k] # 0 THEN st
             ELSE [st EXCEPT !.ok = FALSE,
                     !.message = "CSV scheint keine Bestands-Ansicht zu sein (fehlende Spalten)."])

\* _read_csv from the rows on
csv_rows(rows, st) ==
  IF rows = <<>>
  THEN Returned(EmptyResult, [st EXCEPT !.ok = FALSE, !.message = "CSV leer", !.headers = <<>>])
  ELSE csv_mapped(rows, header_map(rows[1]), [st EXCEPT !.headers = rows[1]])

\* _read_csv from the detected delimiter on
csv_delimited(lines, delim, st) == csv_rows(CsvRows(lines, delim), [st EXCEPT !.delimiter = delim])

\* _read_csv
read_csv(lines, st) == csv_delimited(lines, detect_delimiter(Sample(lines)), st)

\* ------------------------------------------------------------------------
\* Transaction CSV (Depotumsätze)

RECURSIVE col(_, _, _)
\* col(aliases...) of _read_tx_csv, from alias number a on: the 1-based
\* column of the first alias that is a header; 0 for the code's -1
col(lower, aliases, a) ==
  IF a > Len(aliases) THEN 0
  ELSE IF InSeq(aliases[a], lower) THEN IndexOf(aliases[a], lower)
  ELSE col(lower, aliases, a + 1)

TX_OPENING == {"kauf", "buy", "einlieferung", "delivery_inbound"}

TX_CLOSING == {"verkauf", "sell", "auslieferung", "delivery_outbound"}

\* a sign that takes closing types for opening ones
tx_sign_opening(typ) == IF typ \in TX_OPENING \cup TX_CLOSING THEN 1 ELSE 0

\* the sign of a transaction type, 0 for a type that is ignored
tx_sign(typ) ==
  IF typ \in TX_OPENING THEN 1 ELSE IF typ \in TX_CLOSING THEN -1 ELSE 0

\* r[idx] if idx >= 0 and idx < len(r) else dflt
Cell(r, idx, dflt) == IF idx # 0 /\ idx <= Len(r) THEN r[idx] ELSE dflt

\* the position of key in the insertion-ordered map, 0 when absent
key_index(map, key) ==
  IF \E i \in 1..Len(map) : map[i].key = key
  THEN CHOOSE i \in 1..Len(map) : map[i].key = key
  ELSE 0

\* the two += on the entry at position i
add_at(map, i, dshares, dcost) ==
  [map EXCEPT ![i].shares = RAdd(@, dshares), ![i].cost = RAdd(@, dcost)]

\* holdings_map.setdefault(key, {...}) followed by the two +=, on the
\* insertion-ordered map kept as a sequence of entries
Accumulate(map, key, name, ticker, currency, dshares, dcost) ==
  IF key_index(map, key) = 0
  THEN Append(map, [key |-> key, name |-> name, ticker |-> ticker, currency |-> currency,
                    shares |-> dshares, cost |-> dcost])
  ELSE add_at(map, key_index(map, key), dshares, dcost)

\* sign * x
signed(sign, x) == IF sign < 0 THEN RNeg(x) ELSE x

\* the setdefault and += of one row, from its key on
tx_keyed(map, sign, qty, amt, key, name, ticker) ==
  Accumulate(map, key, OrText(OrText(name, key), "Unbekannt"), OrText(ticker, key), "EUR",
             signed(sign, qty), signed(sign, amt))

\* one row of _read_tx_csv, from its cells on
tx_cells(map, sign, qty, amt, ticker, isin, name_or_unknown, name) ==
  IF sign = 0 THEN map
  ELSE tx_keyed(map, sign, qty, amt, OrText(ticker, OrText(isin, name_or_unknown)), name, ticker)

\* one pass of the row loop of _read_tx_csv
tx_row(map, r, idx) ==
  IF ~AnyCell(r) THEN map
  ELSE tx_cells(map, tx_sign(Lower(Strip(Cell(r, idx.typ, "")))),
                parse_num(Cell(r, idx.stueck, "0")), parse_num(Cell(r, idx.wert, "0")),
                Cell(r, idx.ticker, ""), Cell(r, idx.isin, ""),
                Cell(r, idx.name, "Unbekannt"), Cell(r, idx.name, ""))

RECURSIVE tx_replay(_, _, _)
\* the row loop of _read_tx_csv over rows[1:]
tx_replay(map, rows, idx) ==
  IF rows = <<>> THEN map ELSE tx_replay(tx_row(map, Head(rows), idx), Tail(rows), idx)

\* an output loop that skips no entry
retained_always(h) == TRUE

\* whether an accumulated position is kept: not (h["shares"] <= 0.0)
retained(h) == ~RLeq(h.shares, Zero)

\* the holding _read_tx_csv emits for an accumulator entry
tx_holding(h) ==
  [name |-> h.name,
   ticker |-> OrText(h.ticker, h.name),
   quantity |-> h.shares,
   price |-> Zero,
   value |-> Zero,
   cost |-> h.cost,
   gain_abs |-> Zero,
   gain_pct |-> Zero,
   currency |-> h.currency]

RECURSIVE tx_holdings(_)
\* the output loop of _read_tx_csv over holdings_map.items()
tx_holdings(map) ==
  IF map = <<>> THEN <<>>
  ELSE (IF retained(Head(map)) THEN <<tx_holding(Head(map))>> ELSE <<>>)
       \o tx_holdings(Tail(map))

\* the column indexes _read_tx_csv looks up in the normalised headers
tx_indexes(lower) ==
  [typ |-> col(lower, <<"typ", "type">>, 1),
   stueck |-> col(lower, <<"stück", "stueck", "shares", "menge", "anzahl">>, 1),
   wert |-> col(lower, <<"wert", "amount", "betrag", "bruttobetrag">>, 1),
   ticker |-> col(lower, <<"ticker-symbol", "ticker", "symbol">>, 1),
   isin |-> col(lower, <<"isin">>, 1),
   name |-> col(lower, <<"wertpapiername", "wertpapier", "name">>, 1)]

tx_columns(hdr) == tx_indexes(normed(hdr))

\* what _read_tx_csv returns for the holdings it built
tx_result(holdings, st) ==
  Returned([holdings |-> holdings,
            totals |-> [value |-> Zero, cost |-> SumField(holdings, "cost"),
                        gain_abs |-> Zero, gain_pct |-> Zero]],
           [st EXCEPT !.ok = TRUE,
              !.message = "Depotumsätze-CSV erkannt (" \o IntToStr(Len(holdings))
                          \o " Positionen). Werte ohne Marktpreise.",
              !.source = "tx_csv"])

\* _read_tx_csv without its required-columns check
tx_unchecked(rows, idx, st) == tx_result(tx_holdings(tx_replay(<<>>, Tail(rows), idx)), st)

\* _read_tx_csv from the column indexes on
tx_indexed(rows, idx, st) ==
  IF idx.typ = 0 \/ idx.stueck = 0 \/ (idx.ticker = 0 /\ idx.isin = 0 /\ idx.name = 0)
  THEN Returned(EmptyResult,
                [st EXCEPT !.ok = FALSE,
                   !.message = "Depotumsätze-CSV: benötigte Spalten nicht gefunden (Typ/Stück/Ticker/ISIN/Name)."])
  ELSE tx_result(tx_holdings(tx_replay(<<>>, Tail(rows), idx)), st)

\* _read_tx_csv from the rows on
tx_rows(rows, st) ==
  IF rows = <<>>
  THEN Returned(EmptyResult,
                [st EXCEPT !.ok = FALSE, !.message = "Depotumsätze-CSV leer", !.headers = <<>>])
  ELSE tx_indexed(rows, tx_columns(rows[1]), [st EXCEPT !.headers = rows[1]])

\* _read_tx_csv from the detected delimiter on
tx_delimited(lines, delim, st) == tx_rows(CsvRows(lines, delim), [st EXCEPT !.delimiter = delim])

\* _read_tx_csv
read_tx_csv(lines, st) == tx_delimited(lines, detect_delimiter(Sample(lines)), st)

\* ------------------------------------------------------------------------
\* PP XML.  A document is its securities (document order) and its
\* portfolio-transaction elements; a text field that findtext would not
\* find, or find empty, is "" (the code reads every one through "or").
\*   security:    [uuid, name, tickerSymbol, isin, currencyCode, prices]
\*                prices: one entry per prices/price node, <<v>> or <<>>
\*                when the node has no v attribute
\*   transaction: [type, hasSecurity, reference, shares, amount]
\*                reference: <<text>>, or <<>> when the attribute is absent

RefPrefix == "securities/security["

RECURSIVE DigitRun(_, _)
\* the digits of the run that starts at position i of s
DigitRun(s, i) ==
  IF i <= Len(s) /\ IsDigit(CharAt(s, i)) THEN CharAt(s, i) \o DigitRun(s, i + 1) ELSE ""

\* whether the pattern securities/security\[(\d+)\] matches at position i,
\* run being the digits that follow the prefix there
ref_at(ref, i, run) ==
  /\ SubSeq(ref, i, i + Len(RefPrefix) - 1) = RefPrefix
  /\ run # ""
  /\ i + Len(RefPrefix) + Len(run) <= Len(ref)
  /\ CharAt(ref, i + Len(RefPrefix) + Len(run)) = "]"

RECURSIVE RefSearch(_, _)
\* re.search(r"securities/security\[(\d+)\]", ref) from position i on:
\* <<group 1>>, or <<>> when there is no match
RefSearch(ref, i) ==
  IF i + Len(RefPrefix) > Len(ref) THEN <<>>
  ELSE IF ref_at(ref, i, DigitRun(ref, i + Len(RefPrefix)))
  THEN <<DigitRun(ref, i + Len(RefPrefix))>>
  ELSE RefSearch(ref, i + 1)

RefMatch(ref) == RefSearch(ref, 1)

\* a lookup without the upper bounds check, which wraps around
in_range_wrapping(securities, idx) ==
  IF 0 <= idx /\ securities # <<>> THEN (idx % Len(securities)) + 1 ELSE 0

\* securities[idx] if 0 <= idx < len(securities) else None, as a position
in_range(securities, idx) == IF 0 <= idx /\ idx < Len(securities) THEN idx + 1 ELSE 0

resolve_match(securities, m) ==
  IF m = <<>> THEN 0 ELSE in_range(securities, DigitsToInt(m[1], 0) - 1)

\* resolve_security_from_ref: the 1-based position in securities of the
\* node the reference names, 0 for None
resolve_security_from_ref(securities, ref) == resolve_match(securities, RefMatch(ref))

AMOUNT_SCALE == 100

SHARES_SCALE == 1000000000

\* float(txt) / scale, 0.0 when float raises
scaled(f, scale) == IF IsNone(f) THEN Zero ELSE RDiv(f, Num(scale))

\* parse_amount_cents
parse_amount_cents(txt) == scaled(PyFloat(txt), AMOUNT_SCALE)

\* parse_shares_scaled
parse_shares_scaled(txt) == scaled(PyFloat(txt), SHARES_SCALE)

\* the scales latest_price tries, in its order
PRICE_SCALES == <<100000000, 10000000, 1000000, 100000, 10000, 1000, 100, 10, 1>>

\* a price accepted up to ten times the upper limit
scale_fits_wider(iv, scale) ==
  /\ ~iv.neg
  /\ NatLeq(IntToStr(scale), Shift(iv.digits, 2))
  /\ NatLeq(iv.digits, Shift(IntToStr(scale), 7))

\* 0.01 <= iv / scale <= 1_000_000, as scale <= 100 * iv and
\* iv <= 1_000_000 * scale on the digits of iv
scale_fits(iv, scale) ==
  /\ ~iv.neg
  /\ NatLeq(IntToStr(scale), Shift(iv.digits, 2))
  /\ NatLeq(iv.digits, Shift(IntToStr(scale), 6))

\* a price always read as hundredths
cents_fit(iv, k) == 100

RECURSIVE first_fit(_, _)
\* the scale loop of latest_price from scale number k on: the scale it
\* returns iv over, 0 when it returns iv itself
first_fit(iv, k) ==
  IF k > Len(PRICE_SCALES) THEN 0
  ELSE IF scale_fits(iv, PRICE_SCALES[k]) THEN PRICE_SCALES[k]
  ELSE first_fit(iv, k + 1)

\* what latest_price returns from the parsed integer on: iv over a scale
\* (scale 0: iv itself), or None
scaled_price(iv) ==
  IF iv = <<>> THEN None ELSE [iv |-> iv[1], scale |-> first_fit(iv[1], 1)]

\* prices[-1].attrib.get("v", "0")
last_v(prices) == IF prices[Len(prices)] = <<>> THEN "0" ELSE prices[Len(prices)][1]

\* latest_price before the division is carried out
latest_scaled(secnode) ==
  IF secnode.prices = <<>> THEN None ELSE scaled_price(PyInt(last_v(secnode.prices)))

\* p = iv / scale, or iv, as a number (iv of at most nine digits)
price_of(p) ==
  IF IsNone(p) THEN None
  ELSE IF p.scale = 0 THEN Num(Narrow(p.iv))
  ELSE Rat(Narrow(p.iv), p.scale)

\* latest_price: a number, or None
latest_price(secnode) == price_of(latest_scaled(secnode))

XML_SIGNS == [BUY |-> 1, DELIVERY_INBOUND |-> 1, SELL |-> -1, DELIVERY_OUTBOUND |-> -1]

\* the setdefault and += of one transaction on its security node
xml_entry(tmp, secnode, sign, shares, amount) ==
  Accumulate(tmp, OrText(secnode.uuid, OrText(secnode.name, "unknown")),
             OrText(secnode.name, "Unbekannt"),
             OrText(secnode.tickerSymbol, OrText(secnode.isin, OrText(secnode.name, "Unbekannt"))),
             OrText(secnode.currencyCode, "EUR"),
             signed(sign, shares), signed(sign, amount))

\* one transaction of a recognised type, from the resolved position n on
xml_resolved(tmp, securities, tx, n, sign) ==
  IF n = 0 THEN tmp
  ELSE xml_entry(tmp, securities[n], sign,
                 parse_shares_scaled(OrText(tx.shares, "0")),
                 parse_amount_cents(OrText(tx.amount, "0")))

\* one transaction, from its type on
xml_typed(tmp, securities, tx, typ) ==
  IF typ \notin DOMAIN XML_SIGNS THEN tmp
  ELSE IF ~tx.hasSecurity \/ tx.reference = <<>> THEN tmp
  ELSE xml_resolved(tmp, securities, tx,
                    resolve_security_from_ref(securities, tx.reference[1]), XML_SIGNS[typ])

\* one pass of the transaction loop of _read_pp_xml
xml_tx(tmp, securities, tx) == xml_typed(tmp, securities, tx, Upper(Strip(tx.type)))

RECURSIVE xml_replay(_, _, _)
\* the transaction loop of _read_pp_xml
xml_replay(tmp, securities, txs) ==
  IF txs = <<>> THEN tmp
  ELSE xml_replay(xml_tx(tmp, securities, Head(txs)), securities, Tail(txs))

RECURSIVE uuid_index(_, _, _)
\* next((s for s in securities if (s.findtext("./uuid") or "") == key), None),
\* from position i on: a position, 0 for None
uuid_index(securities, key, i) ==
  IF i > Len(securities) THEN 0
  ELSE IF securities[i].uuid = key THEN i
  ELSE uuid_index(securities, key, i + 1)

price_at(securities, n) == IF n = 0 THEN Zero ELSE latest_price(securities[n])

\* latest_price(secnode) if secnode is not None else 0.0
xml_price(securities, h) == price_at(securities, uuid_index(securities, h.key, 1))

\* the holding dict of _read_pp_xml
xml_record(h, price, value, gain) ==
  [name |-> h.name,
   ticker |-> h.ticker,
   quantity |-> h.shares,
   price |-> price,
   value |-> value,
   cost |-> h.cost,
   gain_abs |-> gain,
   gain_pct |-> GainPct(gain, h.cost),
   currency |-> h.currency]

xml_valued(h, price, value) == xml_record(h, price, value, RSub(value, h.cost))

xml_priced(h, price) == xml_valued(h, price, RMul(h.shares, price))

\* the holding _read_pp_xml emits for a retained entry whose price is a number
xml_holding(securities, h) == xml_priced(h, xml_price(securities, h))

RECURSIVE kept_entries(_)
\* the entries of tmp, in order, that the output loop does not skip
kept_entries(tmp) ==
  IF tmp = <<>> THEN <<>>
  ELSE (IF retained(Head(tmp)) THEN <<Head(tmp)>> ELSE <<>>) \o kept_entries(Tail(tmp))

\* what _read_pp_xml returns for the holdings it built
xml_result(holdings, st) ==
  Returned([holdings |-> holdings,
            totals |-> summed_totals(SumField(holdings, "value"), SumField(holdings, "cost"),
                                     SumField(holdings, "gain_abs"))],
           IF holdings = <<>>
           THEN [st EXCEPT !.ok = FALSE,
                   !.message = "PP-XML erkannt, aber keine Bestands-Transaktionen gefunden."]
           ELSE [st EXCEPT !.ok = TRUE,
                   !.message = "XML ok: " \o IntToStr(Len(holdings)) \o " Positionen."])

\* the output loop of _read_pp_xml over the retained entries;
\* h["shares"] * None raises TypeError when latest_price returned None
xml_output(securities, kept, st) ==
  IF \E i \in 1..Len(kept) : IsNone(xml_price(securities, kept[i]))
  THEN Raised(st)
  ELSE xml_result(AsSeq([i \in 1..Len(kept) |-> xml_holding(securities, kept[i])]), st)

\* _read_pp_xml on a document (wellformed = FALSE: ET.parse raises)
read_pp_xml(doc, st) ==
  IF ~doc.wellformed THEN Raised(st)
  ELSE xml_output(doc.securities,
                  kept_entries(xml_replay(<<>>, doc.securities, doc.transactions)),
                  st)

\* ------------------------------------------------------------------------
\* .portfolio container.  A zip archive is the sequence of its members
\* [name, doc, blob]: doc is the member read as XML, blob its leading bytes.

BINARY_SIGNATURE == "PPPBV"

RECURSIVE first_xml(_, _)
\* xml_names[0]: the position of the first member whose name ends in .xml
\* (any case) from position i on, 0 when xml_names is empty
first_xml(members, i) ==
  IF i > Len(members) THEN 0
  ELSE IF EndsWith(Lower(members[i].name), ".xml") THEN i
  ELSE first_xml(members, i + 1)

RECURSIVE named(_, _, _)
\* the position of the member called name from position i on, 0 when absent
named(members, name, i) ==
  IF i > Len(members) THEN 0
  ELSE IF members[i].name = name THEN i
  ELSE named(members, name, i + 1)

\* the data.portfolio branch (the ellipsis character of the binary-format
\* message is written "...")
container_blob(blob, st) ==
  IF SubSeq(blob, 1, Min(Len(BINARY_SIGNATURE), Len(blob))) = BINARY_SIGNATURE
  THEN Returned(EmptyResult,
         [st EXCEPT !.ok = FALSE,
            !.message = "Binary .portfolio erkannt (PPPBV*). Bitte in PP: Datei → Speichern unter... → **XML** oder CSV exportieren."])
  ELSE Returned(EmptyResult,
         [st EXCEPT !.ok = FALSE, !.message = "Unbekanntes .portfolio-Innenformat."])

container_members(members, x, d, st) ==
  IF x # 0 THEN read_pp_xml(members[x].doc, st)
  ELSE IF d # 0 THEN container_blob(members[d].blob, st)
  ELSE Returned(EmptyResult,
         [st EXCEPT !.ok = FALSE, !.message = "Leeres oder unbekanntes .portfolio-Archiv."])

\* _read_portfolio_container
read_portfolio_container(members, st) ==
  container_members(members, first_xml(members, 1), named(members, "data.portfolio", 1), st)

\* ------------------------------------------------------------------------
\* Quote enrichment.  A reply to one request is [kind, results]: kind "ok"
\* is a 200 response whose JSON holds quoteResponse.result = results, kind
\* "status" a response with another status, kind "error" an exception of
\* session.get (timeout, transport error).  A quote is
\* [symbol, regularMarketPrice, postMarketPrice, preMarketPrice, currency],
\* a missing price being None and a missing text "".

\* for k in range(0, len(symbols), 40)
CHUNK_SIZE == 40

\* whether the first loop of _async_enrich_prices records holding h
wants(h) == Strip(h.ticker) # "" /\ ~Truthy(h.price)

RECURSIVE symbols_between(_, _, _)
\* the symbols recorded for holdings[lo..hi], in order, gathered by halves
symbols_between(holdings, lo, hi) ==
  IF lo > hi THEN <<>>
  ELSE IF lo = hi
  THEN (IF wants(holdings[lo]) THEN <<Upper(Strip(holdings[lo].ticker))>> ELSE <<>>)
  ELSE symbols_between(holdings, lo, (lo + hi) \div 2)
       \o symbols_between(holdings, (lo + hi) \div 2 + 1, hi)

\* the symbols whose price is looked up, one per holding that asks
lookup_symbols(holdings) == symbols_between(holdings, 1, Len(holdings))

\* index, by position: the symbol under which the holding at a position is
\* recorded, "" for a holding that is not recorded
lookup_index(holdings) ==
  AsSeq([i \in 1..Len(holdings) |->
           IF wants(holdings[i]) THEN Upper(Strip(holdings[i].ticker)) ELSE ""])

RECURSIVE dedup_between(_, _, _)
\* what the de-dup loop appends to uniq while it walks symbols[lo..hi]: s is
\* in uniq exactly when it stands earlier in symbols
dedup_between(symbols, lo, hi) ==
  IF lo > hi THEN <<>>
  ELSE IF lo = hi
  THEN (IF \E k \in 1..(lo - 1) : symbols[k] = symbols[lo] THEN <<>> ELSE <<symbols[lo]>>)
  ELSE dedup_between(symbols, lo, (lo + hi) \div 2)
       \o dedup_between(symbols, (lo + hi) \div 2 + 1, hi)

\* the de-dup loop: first occurrences, in order
dedup(symbols) == dedup_between(symbols, 1, Len(symbols))

\* the number of passes of the chunk loop
chunk_count(symbols) == (Len(symbols) + CHUNK_SIZE - 1) \div CHUNK_SIZE

\* symbols[k:k+40] of pass number n (n = 1, 2, ...)
chunk(symbols, n) ==
  SubSeq(symbols, (n - 1) * CHUNK_SIZE + 1, Min(n * CHUNK_SIZE, Len(symbols)))

\* a or b or c on quote prices
quote_price(q) ==
  IF Truthy(q.regularMarketPrice) THEN q.regularMarketPrice
  ELSE IF Truthy(q.postMarketPrice) THEN q.postMarketPrice
  ELSE q.preMarketPrice

\* a fill that overwrites the currency whatever it was
fill_currency(h, price, curr) ==
  [h EXCEPT !.price = price,
            !.currency = curr,
            !.value = IF Truthy(h.quantity) /\ ~Truthy(h.value)
                      THEN RMul(price, h.quantity) ELSE h.value]

\* the body of "for idx in index.get(sym, [])" on one holding
fill(h, price, curr) ==
  [h EXCEPT !.price = price,
            !.currency = IF h.currency = "" THEN curr ELSE h.currency,
            !.value = IF Truthy(h.quantity) /\ ~Truthy(h.value)
                      THEN RMul(price, h.quantity) ELSE h.value]

\* "for idx in index.get(sym, [])" for a quote that is used
apply_price(holdings, index, sym, price, curr) ==
  AsSeq([i \in 1..Len(holdings) |->
           IF index[i] = sym THEN fill(holdings[i], price, curr) ELSE holdings[i]])

\* one pass of "for q in results"
apply_quote(holdings, index, q) ==
  IF Upper(q.symbol) = "" \/ IsNone(quote_price(q)) THEN holdings
  ELSE apply_price(holdings, index, Upper(q.symbol), quote_price(q), OrText(q.currency, "EUR"))

RECURSIVE apply_results(_, _, _)
\* "for q in results" (without holdings no quote has anything to fill)
apply_results(holdings, index, results) ==
  IF results = <<>> \/ holdings = <<>> THEN holdings
  ELSE apply_results(apply_quote(holdings, index, Head(results)), index, Tail(results))

RECURSIVE enrich_loop_aborting(_, _, _, _, _, _)
\* a chunk loop that gives up at the first request that fails
enrich_loop_aborting(n, symbols, replies, holdings, index, requests) ==
  IF n > chunk_count(symbols) THEN [holdings |-> holdings, requests |-> requests]
  ELSE IF replies[n].kind # "ok"
  THEN [holdings |-> holdings, requests |-> Append(requests, chunk(symbols, n))]
  ELSE enrich_loop_aborting(n + 1, symbols, replies,
                            apply_results(holdings, index, replies[n].results), index,
                            Append(requests, chunk(symbols, n)))

RECURSIVE enrich_loop(_, _, _, _, _, _)
\* the chunk loop from pass n on; requests is the log of the session.get
\* calls made so far, replies[n] the reply to the request of pass n
enrich_loop(n, symbols, replies, holdings, index, requests) ==
  IF n > chunk_count(symbols) THEN [holdings |-> holdings, requests |-> requests]
  ELSE IF replies[n].kind # "ok"
  THEN enrich_loop(n + 1, symbols, replies, holdings, index,
                   Append(requests, chunk(symbols, n)))
  ELSE enrich_loop(n + 1, symbols, replies,
                   apply_results(holdings, index, replies[n].results), index,
                   Append(requests, chunk(symbols, n)))

\* the part of _async_enrich_prices after "if not symbols: return"
enrich_symbols(holdings, symbols, replies) ==
  IF symbols = <<>> THEN [holdings |-> holdings, requests |-> <<>>]
  ELSE enrich_loop(1, dedup(symbols), replies, holdings, lookup_index(holdings), <<>>)

\* _async_enrich_prices: the holdings as it leaves them, and the requests made
async_enrich_prices(holdings, replies) ==
  enrich_symbols(holdings, lookup_symbols(holdings), replies)

\* the totals _async_update_data recomputes after enrichment
enriched_totals(holdings) ==
  LET value == SumField(holdings, "value")
      cost == SumField(holdings, "cost")
      gain == RSub(value, cost)
  IN [value |-> value, cost |-> cost, gain_abs |-> gain, gain_pct |-> GainPct(gain, cost)]

\* ------------------------------------------------------------------------
\* The dispatcher.  A file is [kind, lines, doc, members]: kind "missing"
\* (os.path.exists is false), "text" (its lines), "xml" (its document),
\* "zip" (its members) or "other" (bytes that the route's reader rejects:
\* open/ET.parse/ZipFile raise).

\* the route of _async_update_data for a .csv path, from the first line
is_tx_first_line(first) ==
  LET low == Lower(first) IN
  Contains(low, "typ") /\ (Contains(low, "stück") \/ Contains(low, "stueck"))

FirstLine(file) == IF file.lines = <<>> THEN "" ELSE file.lines[1]

\* a parser run on a file of the kind it reads; another kind raises
run_csv(file, st) == IF file.kind = "text" THEN read_csv(file.lines, st) ELSE Raised(st)

run_tx_csv(file, st) == IF file.kind = "text" THEN read_tx_csv(file.lines, st) ELSE Raised(st)

run_xml(file, st) == IF file.kind = "xml" THEN read_pp_xml(file.doc, st) ELSE Raised(st)

run_container(file, st) ==
  IF file.kind = "zip" THEN read_portfolio_container(file.members, st) ELSE Raised(st)

\* a dispatcher that leaves the source field alone
untagged(res, tag) == res

\* self._status["source"] = tag, after a parser that returned
tagged(res, tag) == IF res.raised THEN res ELSE [res EXCEPT !.status.source = tag]

\* the parser dispatch of _async_update_data (an existing path)
dispatch(p, file, st) ==
  IF EndsWith(p, ".csv")
  THEN IF file.kind # "text" THEN Raised(st)
       ELSE IF is_tx_first_line(FirstLine(file))
       THEN tagged(run_tx_csv(file, st), "tx_csv")
       ELSE tagged(run_csv(file, st), "csv")
  ELSE IF EndsWith(p, ".portfolio") THEN tagged(run_container(file, st), "portfolio")
  ELSE IF EndsWith(p, ".xml") THEN tagged(run_xml(file, st), "xml")
  ELSE tagged(run_csv(file, st), "auto")

\* _async_update_data up to the parser's return: the missing-file return or
\* the parser dispatch
ingest(p, file, st) ==
  IF file.kind = "missing"
  THEN Returned(EmptyResult, [st EXCEPT !.ok = FALSE, !.message = "Datei nicht gefunden: " \o p])
  ELSE dispatch(p, file, st)

\* the symbols _async_update_data will look up after the parser returned res
symbols_of(res, live) ==
  IF res.raised \/ ~live THEN <<>> ELSE dedup(lookup_symbols(res.data.holdings))

\* _async_update_data from the parser's return on: what it returns (raised:
\* UpdateFailed), the status it leaves, the holdings as parsed and the quote
\* requests it made
enrich(res, live, replies) ==
  IF res.raised
  THEN [raised |-> TRUE, data |-> EmptyResult, status |-> res.status,
        parsed |-> <<>>, requests |-> <<>>]
  ELSE IF live /\ res.data.holdings # <<>>
  THEN LET e == async_enrich_prices(res.data.holdings, replies) IN
       [raised |-> FALSE,
        data |-> [holdings |-> e.holdings, totals |-> enriched_totals(e.holdings)],
        status |-> res.status, parsed |-> res.data.holdings, requests |-> e.requests]
  ELSE [raised |-> FALSE, data |-> res.data, status |-> res.status,
        parsed |-> res.data.holdings, requests |-> <<>>]

\* _async_update_data
async_update_data(p, live, file, st, replies) == enrich(ingest(p, file, st), live, replies)

\* ------------------------------------------------------------------------
\* Files

NoDoc == [wellformed |-> FALSE, securities |-> <<>>, transactions |-> <<>>]

MissingFile == [kind |-> "missing", lines |-> <<>>, doc |-> NoDoc, members |-> <<>>]

OtherFile == [kind |-> "other", lines |-> <<>>, doc |-> NoDoc, members |-> <<>>]

TextFile(lines) == [kind |-> "text", lines |-> lines, doc |-> NoDoc, members |-> <<>>]

XmlFile(doc) == [kind |-> "xml", lines |-> <<>>, doc |-> doc, members |-> <<>>]

ZipFile(members) == [kind |-> "zip", lines |-> <<>>, doc |-> NoDoc, members |-> members]

Doc(securities, transactions) ==
  [wellformed |-> TRUE, securities |-> securities, transactions |-> transactions]

Security(uuid, name, ticker, isin, currency, prices) ==
  [uuid |-> uuid, name |-> name, tickerSymbol |-> ticker, isin |-> isin,
   currencyCode |-> currency, prices |-> prices]

\* a portfolio-transaction with a security child that carries a reference
Tx(type, ref, shares, amount) ==
  [type |-> type, hasSecurity |-> TRUE, reference |-> <<ref>>, shares |-> shares,
   amount |-> amount]

Member(name, doc, blob) == [name |-> name, doc |-> doc, blob |-> blob]

\* the configured paths
Paths == {"/config/pp/holdings.csv", "/config/pp/depot.portfolio", "/config/pp/depot.xml",
          "/config/pp/export.txt"}

\* delimited texts: holdings views and transaction ledgers
TextFiles ==
  { TextFile(<<>>),
    TextFile(<<"Name;Ticker;Bestand;Kurs;Marktwert;Einstand",
               "Alpha;ABC;10;5;0;0", "Beta;;0;0;100;80">>),
    TextFile(<<"Name,Ticker,Quantity", "Alpha,ABC,3", "Beta, abc,2", "Gamma, ,4">>),
    TextFile(<<"Name;Ticker;Bestand;Kurs", "Alpha;ABC;3;7", "Delta;XYZ;-2;">>),
    TextFile(<<"foo,bar", "1,2">>),
    TextFile(<<"Name;Wert">>),
    TextFile(<<"Typ;Stück;Wert;Ticker-Symbol", "Kauf;5;100;ABC", "Kauf;3;60;ABC",
               "Verkauf;1;20;XYZ">>),
    TextFile(<<"Typ;Stück;Wert;Ticker-Symbol", "Kauf;5;100;ABC", "Kauf;3;60;ABC",
               "Verkauf;8;200;ABC">>),
    TextFile(<<"Type;Shares;Amount;Ticker", "Buy;5;100;ABC", "Sell;5;120;ABC">>),
    TextFile(<<"Datum;Type;Stueck;Name", "1.1.;Buy;2;Alpha">>),
    TextFile(<<"Typen;Stück;Ticker", "Kauf;5;ABC">>),
    TextFile(<<"Typ;Stückzahl;Ticker", "Kauf;5;ABC">>),
    TextFile(<<"Typ;Stück;Wert", "Kauf;5;100">>) }

SecAlpha == Security("u-1", "Alpha", "ABC", "", "USD", << <<"100">>, <<"12345">> >>)

SecBeta == Security("", "Beta", "", "DE0001", "", <<>>)

SecGamma == Security("u-3", "Gamma", " ", "", "", <<>>)

Ref(n) == "../../../securities/security[" \o IntToStr(n) \o "]"

XmlDocs ==
  { NoDoc,
    Doc(<<>>, <<>>),
    Doc(<<SecAlpha, SecBeta>>, <<Tx("BUY", Ref(1), "2000000000", "10000")>>),
    Doc(<<SecAlpha, SecBeta>>, <<Tx("BUY", Ref(2), "1000000000", "5000"),
                                 Tx("DIVIDEND", Ref(2), "0", "100")>>),
    Doc(<<SecAlpha, SecBeta>>, <<Tx("BUY", Ref(1), "2000000000", "10000"),
                                 Tx("SELL", Ref(1), "2000000000", "12000")>>),
    Doc(<<SecAlpha, SecGamma>>, <<Tx("DELIVERY_INBOUND", Ref(2), "1000000000", "5000")>>),
    Doc(<<SecAlpha>>, <<Tx("BUY", Ref(3), "1000000000", "5000")>>) }

Archives ==
  { <<>>,
    <<Member("readme.txt", NoDoc, "hello")>>,
    <<Member("data.portfolio", NoDoc, "PPPBV1\t")>>,
    <<Member("data.portfolio", NoDoc, "PK")>>,
    <<Member("data.portfolio", NoDoc, "PPPBV1"), Member("Depot.XML", NoDoc, "")>> }
  \cup {<<Member("data.xml", d, "")>> : d \in XmlDocs}

\* the files the environment may put at a path
Files(p) ==
  {MissingFile, OtherFile}
  \cup (IF EndsWith(p, ".portfolio") THEN {ZipFile(m) : m \in Archives}
        ELSE IF EndsWith(p, ".xml") THEN {XmlFile(d) : d \in XmlDocs}
        ELSE TextFiles)

\* ------------------------------------------------------------------------
\* Quote replies

Quote(symbol, regular, post, pre, currency) ==
  [symbol |-> symbol, regularMarketPrice |-> regular, postMarketPrice |-> post,
   preMarketPrice |-> pre, currency |-> currency]

\* the replies the quote service may give to a request for symbols
ReplyShapes == {"error", "status", "all"}

MoreReplyShapes == {"empty", "post", "lower", "twice", "noprice", "zero", "other"}

\* the reply of a shape to a request
Reply(shape, symbols) ==
  LET ok(results) == [kind |-> "ok", results |-> results] IN
  CASE shape = "error" -> [kind |-> "error", results |-> <<>>]
    [] shape = "status" -> [kind |-> "status", results |-> <<>>]
    [] shape = "all" ->
         ok(AsSeq([i \in 1..Len(symbols) |-> Quote(symbols[i], Num(42), None, None, "USD")]))
    [] shape = "empty" -> ok(<<>>)
    [] shape = "post" -> ok(<<Quote(symbols[1], None, Num(7), Num(9), "")>>)
    [] shape = "lower" -> ok(<<Quote(Lower(symbols[1]), Zero, None, Num(5), "CHF")>>)
    [] shape = "twice" -> ok(<<Quote(symbols[1], Num(42), None, None, "USD"),
                              Quote(symbols[1], Num(50), None, None, "GBP")>>)
    [] shape = "noprice" -> ok(<<Quote(symbols[1], None, None, None, "USD"),
                                Quote("", Num(3), None, None, "USD")>>)
    [] shape = "zero" -> ok(<<Quote(symbols[1], Zero, None, Zero, "USD")>>)
    [] shape = "other" -> ok(<<Quote("ZZZ", Num(3), None, None, "USD")>>)

\* ------------------------------------------------------------------------
\* The coordinator

VARIABLES
  path,         \* self._path
  enable_live,  \* self._enable_live
  status,       \* self._status
  fs,           \* the file at path
  seen,         \* the file the last ingestion attempt found
  outcome,      \* of the last attempt: "none", "returned" or "failed" (UpdateFailed)
  data,         \* what the last attempt returned
  parsed,       \* the holdings the last attempt's parser returned
  requests,     \* the quote requests the last attempt made, in order
  replies       \* the replies they got

vars == <<path, enable_live, status, fs, seen, outcome, data, parsed, requests, replies>>

\* PPDataCoordinator.__init__
InitStatus == [ok |-> TRUE, message |-> "", headers |-> <<>>, delimiter |-> "", source |-> ""]

Constructed ==
  /\ status = InitStatus
  /\ seen = MissingFile
  /\ outcome = "none"
  /\ data = EmptyResult
  /\ parsed = <<>>
  /\ requests = <<>>
  /\ replies = <<>>

Init ==
  /\ path \in Paths
  /\ enable_live \in BOOLEAN
  /\ fs \in Files(path)
  /\ Constructed

\* the environment replaces the file
WriteFile ==
  /\ \E f \in Files(path) : fs' = f
  /\ UNCHANGED <<path, enable_live, status, seen, outcome, data, parsed, requests, replies>>

\* the replies of the given shapes to the requests for symbols
replies_of(symbols, shapes) ==
  AsSeq([n \in 1..chunk_count(symbols) |-> Reply(shapes[n], chunk(symbols, n))])

\* a run that adds what it read to the holdings of the run before
Attempt_carrying(single, several) ==
  \E res \in {ingest(path, fs, status)} :
  \E symbols \in {symbols_of(res, enable_live)} :
  \E shapes \in [1..chunk_count(symbols) ->
                   IF chunk_count(symbols) <= 1 THEN single ELSE several] :
  \E given \in {replies_of(symbols, shapes)} :
  \E out \in {enrich(res, enable_live, given)} :
    /\ status' = out.status
    /\ seen' = fs
    /\ outcome' = IF out.raised THEN "failed" ELSE "returned"
    /\ data' = [out.data EXCEPT !.holdings = data.holdings \o @]
    /\ parsed' = out.parsed
    /\ requests' = out.requests
    /\ replies' = given
    /\ UNCHANGED <<path, enable_live, fs>>

\* one run of _async_update_data; the quote service replies in a shape of
\* single when one request is made, of several when more are
Attempt(single, several) ==
  \E res \in {ingest(path, fs, status)} :
  \E symbols \in {symbols_of(res, enable_live)} :
  \E shapes \in [1..chunk_count(symbols) ->
                   IF chunk_count(symbols) <= 1 THEN single ELSE several] :
  \E given \in {replies_of(symbols, shapes)} :
  \E out \in {enrich(res, enable_live, given)} :
    /\ status' = out.status
    /\ seen' = fs
    /\ outcome' = IF out.raised THEN "failed" ELSE "returned"
    /\ data' = out.data
    /\ parsed' = out.parsed
    /\ requests' = out.requests
    /\ replies' = given
    /\ UNCHANGED <<path, enable_live, fs>>

\* one scheduled refresh
Refresh == Attempt(ReplyShapes, ReplyShapes)

Next == WriteFile \/ Refresh

Spec == Init /\ [][Next]_vars

\* ------------------------------------------------------------------------
\* Properties of the status record and of the dispatcher (under Spec)

\* an ingestion attempt has been made, on the file seen
Attempted == outcome # "none"

\* the header mapping _read_csv builds for a text
mapping_of(lines) == header_map(CsvRows(lines, detect_delimiter(Sample(lines)))[1])

\* a text that _read_csv reads as a holdings view with a value-bearing column
value_bearing(lines) == lines # <<>> /\ \E k \in ValueBearing : mapping_of(lines)[k] # 0

\* the path is read by the holdings parser whatever the file holds
holdings_path(p) == ~EndsWith(p, ".csv") /\ ~EndsWith(p, ".portfolio") /\ ~EndsWith(p, ".xml")

\* the attempt on the file seen ran the holdings parser
holdings_route ==
  /\ seen.kind = "text"
  /\ \/ holdings_path(path)
     \/ EndsWith(path, ".csv") /\ ~is_tx_first_line(FirstLine(seen))

\* the attempt on the file seen ran the transaction parser
tx_route == seen.kind = "text" /\ EndsWith(path, ".csv") /\ is_tx_first_line(FirstLine(seen))

\* C1: the status is reset to the optimistic default at the start of every
\* ingestion attempt, so that it reflects the most recent attempt alone: an
\* attempt that parses a holdings CSV with a recognised value-bearing column
\* ends with ok = TRUE and no message left over from an earlier attempt.
C1_StatusReflectsLastAttempt ==
  (outcome = "returned" /\ holdings_route /\ value_bearing(seen.lines))
    => (status.ok /\ status.message = "")

\* a transaction CSV whose header lacks the type column, the share-count
\* column, or all of ticker, ISIN and name
lacks_tx_columns(lines) ==
  /\ lines # <<>>
  /\ CsvRows(lines, detect_delimiter(Sample(lines))) # <<>>
  /\ LET idx == tx_columns(CsvRows(lines, detect_delimiter(Sample(lines)))[1]) IN
     idx.typ = 0 \/ idx.stueck = 0 \/ (idx.ticker = 0 /\ idx.isin = 0 /\ idx.name = 0)

\* a zip archive without a member whose name ends in .xml
no_xml_member(members) == \A i \in 1..Len(members) : ~EndsWith(Lower(members[i].name), ".xml")

MissingPath == seen.kind = "missing"

EmptyCsv == holdings_route /\ seen.lines = <<>>

TxCsvLackingColumns == tx_route /\ lacks_tx_columns(seen.lines)

ContainerWithoutXml ==
  EndsWith(path, ".portfolio") /\ seen.kind = "zip" /\ no_xml_member(seen.members)

\* C2: an attempt on a missing path, an empty CSV, a transaction CSV lacking
\* its type, share-count or identity columns, or a zip container without an
\* XML member returns (does not raise) the empty result with ok = FALSE and a
\* non-empty message, the message of a missing path holding the path.
C2_AnomalyYieldsEmptyShell ==
  (Attempted /\ (MissingPath \/ EmptyCsv \/ TxCsvLackingColumns \/ ContainerWithoutXml)) =>
    /\ outcome = "returned"
    /\ data = EmptyResult
    /\ ~status.ok
    /\ status.message # ""
    /\ MissingPath => Contains(status.message, path)

\* an attempt on a ledger without identity columns, after an earlier attempt
\* had left another message, with live prices enabled
C2_Witness ==
  /\ Attempted /\ TxCsvLackingColumns /\ enable_live
  /\ seen.lines[1] = "Typ;Stück;Wert"
  /\ data = EmptyResult /\ ~status.ok

\* the tag of the route the dispatcher takes for the file seen
route_tag ==
  IF EndsWith(path, ".csv")
  THEN IF is_tx_first_line(FirstLine(seen)) THEN "tx_csv" ELSE "csv"
  ELSE IF EndsWith(path, ".portfolio") THEN "portfolio"
  ELSE IF EndsWith(path, ".xml") THEN "xml"
  ELSE "auto"

\* the route of the file seen in the vocabulary holdings-csv, transaction-csv,
\* xml, container, auto
route_name ==
  IF EndsWith(path, ".csv")
  THEN IF is_tx_first_line(FirstLine(seen)) THEN "transaction-csv" ELSE "holdings-csv"
  ELSE IF EndsWith(path, ".portfolio") THEN "container"
  ELSE IF EndsWith(path, ".xml") THEN "xml"
  ELSE "auto"

\* C3 as stated: after every attempt on an existing file, source is the tag
\* of the route taken and one of holdings-csv, transaction-csv, xml,
\* container, auto.
C3_SourceInNamedVocabulary ==
  (Attempted /\ seen.kind # "missing") =>
    /\ status.source \in {"holdings-csv", "transaction-csv", "xml", "container", "auto"}
    /\ status.source = route_name

\* C3: after every attempt on an existing file that returns, source is the
\* tag of the route taken, one of csv, tx_csv, portfolio, xml, auto: a .csv
\* path yields tx_csv or csv, a .portfolio path portfolio, a .xml path xml
\* and any other extension auto.
C3_SourceIsRouteTag ==
  (outcome = "returned" /\ seen.kind # "missing") =>
    /\ status.source \in {"csv", "tx_csv", "portfolio", "xml", "auto"}
    /\ status.source = route_tag

\* a returning attempt on a ledger, a holdings view having since replaced it
C3_Witness ==
  /\ outcome = "returned" /\ tx_route /\ status.source = "tx_csv"
  /\ fs.kind = "text" /\ ~is_tx_first_line(FirstLine(fs))

\* the type and share-count markers of a ledger's first line, German or
\* English (the header names _read_tx_csv looks up)
has_type_marker(low) == Contains(low, "typ") \/ Contains(low, "type")

has_share_marker(low) ==
  \/ Contains(low, "stück") \/ Contains(low, "stueck")
  \/ Contains(low, "shares") \/ Contains(low, "menge") \/ Contains(low, "anzahl")

\* C4: for a .csv input the dispatcher routes to the transaction parser
\* exactly when the first line holds both a type marker and a share-count
\* marker, German or English; every other first line goes to the holdings
\* parser.
C4_RoutedByMarkers ==
  (outcome = "returned" /\ EndsWith(path, ".csv") /\ seen.kind = "text") =>
    (status.source = "tx_csv"
       <=> (has_type_marker(Lower(FirstLine(seen))) /\ has_share_marker(Lower(FirstLine(seen)))))

\* every holding of the result has a quantity above zero
AllPositive == \A i \in 1..Len(data.holdings) : RLess(Zero, data.holdings[i].quantity)

\* C5 as stated: every holding in the result of any ingestion has
\* quantity > 0.
C5_EveryQuantityPositive == Attempted => AllPositive

\* the attempt on the file seen ran a replaying parser: transaction CSV,
\* XML, or container
replay_route ==
  \/ tx_route
  \/ EndsWith(path, ".xml") /\ seen.kind = "xml"
  \/ EndsWith(path, ".portfolio") /\ seen.kind = "zip"

\* C5: every holding in the result of an ingestion by the transaction-CSV,
\* XML or container parser has quantity > 0; a position whose accumulated
\* quantity is zero or negative is not in the output.
C5_ReplayedQuantityPositive == (Attempted /\ replay_route) => AllPositive

\* a ledger whose replay closes one position and keeps another
C5_Witness ==
  /\ outcome = "returned" /\ tx_route
  /\ Len(data.holdings) = 1
  /\ Len(tx_replay(<<>>, Tail(CsvRows(seen.lines, ";")), tx_columns(Split(seen.lines[1], ";")))) = 2

\* ------------------------------------------------------------------------
\* Transaction ledgers (SpecTx): every ledger of up to MaxLedgerRows rows

MaxLedgerRows == 3

LedgerHeader == "Typ;Stück;Wert;Ticker-Symbol;ISIN;Name"

\* rows that open, close, and leave alone positions keyed by ticker, by ISIN
\* and by name, and a row of empty cells
LedgerRows ==
  { "Kauf;5;100;ABC;;Alpha",
    "Kauf;3;60;ABC;;Alpha",
    "Verkauf;8;200;ABC;;Alpha",
    "SELL;1;20;XYZ;;Xylo",
    "Dividende;9;50;ABC;;Alpha",
    "Einlieferung;2;0;;DE0001;Beta",
    "delivery_outbound;1;10;;DE0001;Beta",
    " buy ;1,5;30,5;;;Gamma",
    ";;;;;" }

\* the sequences over S of length up to n
SeqsUpTo(S, n) == UNION {{AsSeq(f) : f \in [1..k -> S]} : k \in 0..n}

Ledgers == {TextFile(<<LedgerHeader>> \o rows) : rows \in SeqsUpTo(LedgerRows, MaxLedgerRows)}

InitTx ==
  /\ path = "/config/pp/holdings.csv"
  /\ enable_live = FALSE
  /\ fs \in Ledgers
  /\ Constructed

SpecTx == InitTx /\ [][Refresh]_vars

\* the data rows of the ledger seen, as cells, and its column indexes
ledger_rows == Tail(CsvRows(seen.lines, ";"))

ledger_idx == tx_columns(Split(seen.lines[1], ";"))

\* the identity key of a row: ticker, else ISIN, else name
row_key(r, idx) ==
  OrText(Cell(r, idx.ticker, ""), OrText(Cell(r, idx.isin, ""), Cell(r, idx.name, "Unbekannt")))

row_type(r, idx) == Lower(Strip(Cell(r, idx.typ, "")))

\* the rows of a key whose type is one of types
rows_of(rows, idx, key, types) ==
  {i \in 1..Len(rows) :
     AnyCell(rows[i]) /\ row_key(rows[i], idx) = key /\ row_type(rows[i], idx) \in types}

RECURSIVE SumOver(_, _, _)
\* the sum of the numbers in column c of the rows numbered in I
SumOver(rows, I, c) ==
  IF I = {} THEN Zero
  ELSE RAdd(parse_num(Cell(rows[CHOOSE j \in I : TRUE], c, "0")),
            SumOver(rows, I \ {CHOOSE j \in I : TRUE}, c))

\* opening minus closing sums of column c for a key
net(rows, idx, key, c) ==
  RSub(SumOver(rows, rows_of(rows, idx, key, TX_OPENING), c),
       SumOver(rows, rows_of(rows, idx, key, TX_CLOSING), c))

\* the keys of the opening and closing rows
ledger_keys(rows, idx) ==
  {row_key(rows[i], idx) : i \in {j \in 1..Len(rows) :
      AnyCell(rows[j]) /\ row_type(rows[j], idx) \in TX_OPENING \cup TX_CLOSING}}

\* the keys whose opening shares exceed their closing shares
open_keys(rows, idx) ==
  {k \in ledger_keys(rows, idx) : RLess(Zero, net(rows, idx, k, idx.stueck))}

\* holdings and totals are the signed accumulation of rows over the keys open
accumulated(rows, idx, open, holdings, totals) ==
  /\ Cardinality(open) = Len(holdings)
  /\ \A k \in open :
       \E i \in 1..Len(holdings) :
         /\ holdings[i].ticker = k
         /\ holdings[i].quantity = net(rows, idx, k, idx.stueck)
         /\ holdings[i].cost = net(rows, idx, k, idx.wert)
  /\ \A i \in 1..Len(holdings) :
       /\ holdings[i].price = Zero /\ holdings[i].value = Zero
       /\ holdings[i].gain_abs = Zero /\ holdings[i].gain_pct = Zero
  /\ totals = [value |-> Zero, cost |-> SumField(holdings, "cost"),
               gain_abs |-> Zero, gain_pct |-> Zero]

\* C6: after replaying the rows of a transaction CSV, the output holds one
\* holding per identity key (ticker, else ISIN, else name) whose opening
\* shares exceed its closing shares, with quantity the opening minus the
\* closing shares and cost the same signed sum of amounts; rows of other
\* types change nothing, keys whose shares are <= 0 are absent, every
\* holding has price = value = gain_abs = gain_pct = 0 and the totals carry
\* only the cost.
C6_SignedAccumulation ==
  (Attempted /\ tx_route /\ ~lacks_tx_columns(seen.lines)) =>
    /\ outcome = "returned"
    /\ accumulated(ledger_rows, ledger_idx, open_keys(ledger_rows, ledger_idx),
                   data.holdings, data.totals)

\* buys of 5 and 3 shares at 100 and 60, then a dividend: quantity 8, cost 160
C6_Witness ==
  /\ Attempted /\ tx_route
  /\ seen.lines = <<LedgerHeader, "Kauf;5;100;ABC;;Alpha", "Kauf;3;60;ABC;;Alpha",
                    "Dividende;9;50;ABC;;Alpha">>
  /\ Len(data.holdings) = 1
  /\ data.holdings[1].quantity = Num(8) /\ data.holdings[1].cost = Num(160)

\* ------------------------------------------------------------------------
\* XML documents (SpecXml): three securities and every sequence of up to
\* MaxTransactions transactions

MaxTransactions == 3

\* Alpha has a uuid and prices, Beta neither, Gamma a uuid and no price
Portfolio == <<SecAlpha, SecBeta, SecGamma>>

\* a portfolio-transaction without a security child
TxBare(type, shares, amount) ==
  [type |-> type, hasSecurity |-> FALSE, reference |-> <<>>, shares |-> shares,
   amount |-> amount]

\* a portfolio-transaction whose security child has no reference attribute
TxUnreferenced(type, shares, amount) ==
  [type |-> type, hasSecurity |-> TRUE, reference |-> <<>>, shares |-> shares,
   amount |-> amount]

Transactions ==
  { Tx("BUY", Ref(1), "2000000000", "10000"),
    Tx(" sell ", Ref(1), "500000000", "3000"),
    Tx("delivery_inbound", Ref(2), "1000000000", "5000"),
    Tx("DELIVERY_OUTBOUND", Ref(2), "1000000000", "5000"),
    Tx("BUY", Ref(3), "1000000000", "700"),
    Tx("DIVIDEND", Ref(1), "1000000000", "100"),
    Tx("BUY", Ref(0), "1000000000", "100"),
    Tx("BUY", Ref(4), "1000000000", "100"),
    Tx("BUY", "../securities/security[x]", "1000000000", "100"),
    TxBare("BUY", "1000000000", "100"),
    TxUnreferenced("SELL", "1000000000", "100") }

Documents == {XmlFile(Doc(Portfolio, txs)) : txs \in SeqsUpTo(Transactions, MaxTransactions)}

InitXml ==
  /\ path = "/config/pp/depot.xml"
  /\ enable_live = FALSE
  /\ fs \in Documents
  /\ Constructed

SpecXml == InitXml /\ [][Refresh]_vars

\* the types the replay counts, with their signs
counted(typ) == typ \in {"BUY", "DELIVERY_INBOUND", "SELL", "DELIVERY_OUTBOUND"}

sign_of(typ) == IF typ \in {"BUY", "DELIVERY_INBOUND"} THEN 1 ELSE -1

RECURSIVE ref_number(_, _)
\* the 1-based index N a reference text names, 0 when it names none
ref_number(ref, i) ==
  IF i + Len(RefPrefix) + 1 > Len(ref) THEN 0
  ELSE IF /\ SubSeq(ref, i, i + Len(RefPrefix) - 1) = RefPrefix
          /\ DigitRun(ref, i + Len(RefPrefix)) # ""
          /\ i + Len(RefPrefix) + Len(DigitRun(ref, i + Len(RefPrefix))) <= Len(ref)
          /\ CharAt(ref, i + Len(RefPrefix) + Len(DigitRun(ref, i + Len(RefPrefix)))) = "]"
  THEN DigitsToInt(DigitRun(ref, i + Len(RefPrefix)), 0)
  ELSE ref_number(ref, i + 1)

\* the security a transaction refers to: its position, 0 when the type is
\* not counted, the reference is missing or unparseable, or N is out of range
referred(securities, tx) ==
  IF ~counted(Upper(Strip(tx.type))) \/ ~tx.hasSecurity \/ tx.reference = <<>> THEN 0
  ELSE IF ref_number(tx.reference[1], 1) < 1 \/ ref_number(tx.reference[1], 1) > Len(securities)
  THEN 0
  ELSE ref_number(tx.reference[1], 1)

\* the key of a security: uuid, else name, else "unknown"
security_key(sec) == OrText(sec.uuid, OrText(sec.name, "unknown"))

\* the shares and cost of key in the accumulator tmp (0 when it has no entry)
entry_shares(tmp, key) ==
  IF key_index(tmp, key) = 0 THEN Zero ELSE tmp[key_index(tmp, key)].shares

entry_cost(tmp, key) ==
  IF key_index(tmp, key) = 0 THEN Zero ELSE tmp[key_index(tmp, key)].cost

entry_keys(tmp) == {tmp[i].key : i \in 1..Len(tmp)}

\* one transaction takes the accumulator from tmp to next as C7 says
step_counts(securities, tx, n, tmp, next) ==
  IF n = 0 THEN next = tmp
  ELSE /\ entry_keys(next) = entry_keys(tmp) \cup {security_key(securities[n])}
       /\ \A k \in entry_keys(next) :
            IF k = security_key(securities[n])
            THEN /\ entry_shares(next, k) =
                      RAdd(entry_shares(tmp, k),
                           RMul(Num(sign_of(Upper(Strip(tx.type)))),
                                Rat(DigitsToInt(tx.shares, 0), SHARES_SCALE)))
                 /\ entry_cost(next, k) =
                      RAdd(entry_cost(tmp, k),
                           RMul(Num(sign_of(Upper(Strip(tx.type)))),
                                Rat(DigitsToInt(tx.amount, 0), AMOUNT_SCALE)))
            ELSE /\ entry_shares(next, k) = entry_shares(tmp, k)
                 /\ entry_cost(next, k) = entry_cost(tmp, k)

\* every transaction of txs, replayed after those before it, counts as C7 says
replay_counts(securities, txs) ==
  \A j \in 1..Len(txs) :
    step_counts(securities, txs[j], referred(securities, txs[j]),
                xml_replay(<<>>, securities, SubSeq(txs, 1, j - 1)),
                xml_replay(<<>>, securities, SubSeq(txs, 1, j)))

\* the retained entries of the document seen
seen_kept == kept_entries(xml_replay(<<>>, seen.doc.securities, seen.doc.transactions))

\* the output is the retained entries, in order, with their shares and cost
output_matches(kept, holdings) ==
  /\ Len(holdings) = Len(kept)
  /\ \A i \in 1..Len(kept) :
       /\ holdings[i].quantity = kept[i].shares
       /\ holdings[i].cost = kept[i].cost
       /\ holdings[i].name = kept[i].name

\* C7: the XML replay never aborts on a bad reference and counts only the
\* recognised types: a transaction of another type, without a parseable
\* security reference, or with an index N < 1 or N > number of securities
\* leaves every accumulator entry unchanged; any other adds
\* sign * shares / 10^9 and sign * amount / 10^2 to the entry of the N-th
\* security (keyed by uuid, else name, else "unknown"), sign being +1 for
\* BUY and DELIVERY_INBOUND and -1 for SELL and DELIVERY_OUTBOUND.
C7_ReplayCountsRecognised ==
  (Attempted /\ seen.kind = "xml" /\ seen.doc.wellformed) =>
    /\ replay_counts(seen.doc.securities, seen.doc.transactions)
    /\ outcome = "failed" => \E i \in 1..Len(seen_kept) :
                                IsNone(xml_price(seen.doc.securities, seen_kept[i]))
    /\ outcome = "returned" => output_matches(seen_kept, data.holdings)

\* a BUY of 2000000000 shares for 10000 between a transaction with an index
\* past the last security and one with an unparseable reference: quantity 2,
\* cost 100
C7_Witness ==
  /\ Attempted /\ outcome = "returned"
  /\ seen.doc.transactions = <<Tx("BUY", Ref(4), "1000000000", "100"),
                               Tx("BUY", Ref(1), "2000000000", "10000"),
                               Tx("BUY", "../securities/security[x]", "1000000000", "100")>>
  /\ Len(data.holdings) = 1
  /\ data.holdings[1].quantity = Num(2) /\ data.holdings[1].cost = Num(100)

\* the holdings of the securities whose most recent price node carries v
priced_by(v) ==
  {i \in 1..Len(data.holdings) :
     \E n \in 1..Len(seen.doc.securities) :
       /\ seen.doc.securities[n].uuid # ""
       /\ seen.doc.securities[n].name = data.holdings[i].name
       /\ seen.doc.securities[n].prices # <<>>
       /\ seen.doc.securities[n].prices[Len(seen.doc.securities[n].prices)] = <<v>>}

\* C8 as stated: a security whose most recent price node carries 12345
\* resolves to the latest price 123.45.
C8_PriceInHundredths ==
  (outcome = "returned" /\ seen.kind = "xml") =>
    \A i \in priced_by("12345") : data.holdings[i].price = Rat(12345, 100)

\* C8: a security whose most recent price node carries 12345 resolves to
\* the latest price 0.012345: 12345 over the first of the scales 10^8, 10^7,
\* ..., 1 that puts it in [0.01, 1000000], which is 10^6.
C8_PriceAtFirstFittingScale ==
  (outcome = "returned" /\ seen.kind = "xml") =>
    \A i \in priced_by("12345") :
      /\ data.holdings[i].price = Rat(12345, 1000000)
      /\ data.holdings[i].value = RMul(data.holdings[i].quantity, Rat(12345, 1000000))

\* a holding of Alpha, whose last price node carries 12345
C8_Witness ==
  /\ outcome = "returned" /\ seen.kind = "xml"
  /\ priced_by("12345") # {}
  /\ \E i \in priced_by("12345") : data.holdings[i].quantity = Num(2)

\* ------------------------------------------------------------------------
\* Quote enrichment (SpecEnrich): holdings views of up to MaxSymbols rows
\* that ask for a quote, read with live prices enabled

MaxSymbols == 81

QuotedHeader == "Name,Ticker,Quantity,Price,Value,Currency"

\* row number i: a holding of 3 units that asks for the quote of s<i>
QuotedRow(i) == "N" \o IntToStr(i) \o ",s" \o IntToStr(i) \o ",3,,,"

QuotedRows(n) == AsSeq([i \in 1..n |-> QuotedRow(i)])

\* holdings with a price, with a blank ticker, with a value and a currency,
\* and without a quantity
SettledRows == <<"Priced,PR,1,9,,", "Blank, ,4,,,", "Valued,VAL,2,,50,CHF", "NoQty,NQ,,,,">>

\* a second holding of s1
RepeatedRow == "Again, S1 ,2,,,"

\* how many rows ask in a view of such rows only
PlainCounts == {0, 1, 2, CHUNK_SIZE, CHUNK_SIZE + 1, 2 * CHUNK_SIZE, MaxSymbols}

\* how many rows ask beside the settled and the repeated rows
MixedCounts == {1, CHUNK_SIZE - 2, CHUNK_SIZE - 1, 2 * CHUNK_SIZE - 2}

QuotedFiles ==
  {TextFile(<<QuotedHeader>> \o QuotedRows(n)) : n \in PlainCounts}
  \cup {TextFile(<<QuotedHeader>> \o SettledRows \o QuotedRows(n) \o <<RepeatedRow>>) :
          n \in MixedCounts}
  \cup {TextFile(<<"Name,Ticker,Quantity", "Alpha,ABC,3", "Beta, abc,2", "Gamma, ,4">>)}

InitEnrich ==
  /\ path = "/config/pp/holdings.csv"
  /\ enable_live = TRUE
  /\ fs \in QuotedFiles
  /\ Constructed

\* one scheduled refresh, the quote service replying in any of its shapes
\* when a single request is made
RefreshQuotes == Attempt(ReplyShapes \cup MoreReplyShapes, ReplyShapes)

SpecEnrich == InitEnrich /\ [][RefreshQuotes]_vars

\* a holding asks for a quote: non-empty ticker and falsy price
asks(h) == Strip(h.ticker) # "" /\ ~Truthy(h.price)

\* the symbol a holding is looked up by
symbol_of(h) == Upper(Strip(h.ticker))

RECURSIVE Flatten(_)
\* the batches, one after the other
Flatten(batches) == IF batches = <<>> THEN <<>> ELSE Head(batches) \o Flatten(Tail(batches))

RECURSIVE asked_between(_, _, _)
asked_between(holdings, lo, hi) ==
  IF lo > hi THEN <<>>
  ELSE IF lo = hi THEN (IF asks(holdings[lo]) THEN <<symbol_of(holdings[lo])>> ELSE <<>>)
  ELSE asked_between(holdings, lo, (lo + hi) \div 2)
       \o asked_between(holdings, (lo + hi) \div 2 + 1, hi)

\* the symbols of the holdings that ask, in the order of the holdings
asked(holdings) == asked_between(holdings, 1, Len(holdings))

\* where sym is first seen in a sequence of symbols
first_seen(symbols, sym) ==
  CHOOSE j \in {k \in 1..Len(symbols) : symbols[k] = sym} :
    \A k \in {m \in 1..Len(symbols) : symbols[m] = sym} : j <= k

\* the first available of the regular, post-market and pre-market price
first_available(q) ==
  IF Truthy(q.regularMarketPrice) THEN q.regularMarketPrice
  ELSE IF Truthy(q.postMarketPrice) THEN q.postMarketPrice
  ELSE q.preMarketPrice

\* the quotes of the replies that arrived
answered(given) ==
  UNION {{given[n].results[k] : k \in 1..Len(given[n].results)} :
           n \in {m \in 1..Len(given) : given[m].kind = "ok"}}

\* the prices that quotes carry for sym
quoted_prices(quotes, sym) ==
  {first_available(q) :
     q \in {r \in quotes : Upper(r.symbol) = sym /\ ~IsNone(first_available(r))}}

\* the lookups flat, cut into the batches sent, are the symbols wanted, once
\* each, in first-seen order, in batches of at most CHUNK_SIZE
batched(wanted, sent, flat) ==
  /\ \A n \in 1..Len(sent) : Len(sent[n]) >= 1 /\ Len(sent[n]) <= CHUNK_SIZE
  /\ \A a, b \in 1..Len(flat) : a # b => flat[a] # flat[b]
  /\ {flat[a] : a \in 1..Len(flat)} = {wanted[j] : j \in 1..Len(wanted)}
  /\ \A a \in 1..(Len(flat) - 1) : first_seen(wanted, flat[a]) < first_seen(wanted, flat[a + 1])
  /\ Len(sent) = (Len(flat) + CHUNK_SIZE - 1) \div CHUNK_SIZE

\* every batch that was answered is applied, whatever happened to the others
applied(holdings, sent, given, quotes, result) ==
  \A n \in 1..Len(sent) :
    given[n].kind = "ok" =>
      \A i \in 1..Len(holdings) :
        (asks(holdings[i]) /\ InSeq(symbol_of(holdings[i]), sent[n])
           /\ quoted_prices(quotes, symbol_of(holdings[i])) # {})
          => result[i].price \in quoted_prices(quotes, symbol_of(holdings[i]))

\* C9: the lookup symbols are the upper-cased tickers of the holdings with a
\* non-empty ticker and a falsy price, without duplicates and in first-seen
\* order; every symbol is in exactly one batch, no batch has more than 40
\* symbols, each batch is requested exactly once, and a batch that fails is
\* skipped: the remaining batches are requested and applied and the
\* ingestion returns.
C9_BoundedSingleShotBatches ==
  (Attempted /\ enable_live /\ parsed # <<>>) =>
    /\ outcome = "returned"
    /\ batched(asked(parsed), requests, Flatten(requests))
    /\ Len(replies) = Len(requests)
    /\ applied(parsed, requests, replies, answered(replies), data.holdings)

\* three batches: the first refused, the second lost, the third answered and
\* applied
C9_Witness ==
  /\ outcome = "returned" /\ Len(requests) = 3
  /\ replies[1].kind = "status" /\ replies[2].kind = "error" /\ replies[3].kind = "ok"
  /\ Len(requests[1]) = CHUNK_SIZE /\ Len(requests[3]) = 1
  /\ \E i \in 1..Len(parsed) :
       /\ InSeq(symbol_of(parsed[i]), requests[3])
       /\ data.holdings[i].price = Num(42)
  /\ \E i \in 1..Len(parsed) :
       /\ InSeq(symbol_of(parsed[i]), requests[2])
       /\ data.holdings[i].price = Zero

\* what enrichment may do to holding h, leaving g, given the prices quoted
\* for its symbol
permitted(h, g, prices) ==
  /\ g.name = h.name /\ g.ticker = h.ticker /\ g.quantity = h.quantity /\ g.cost = h.cost
  /\ g.gain_abs = h.gain_abs /\ g.gain_pct = h.gain_pct
  /\ (Strip(h.ticker) = "" \/ Truthy(h.price) \/ prices = {}) => g = h
  /\ g.price # h.price => g.price \in prices
  /\ g.currency # h.currency => h.currency = ""
  /\ g.value # h.value =>
       /\ Truthy(h.quantity) /\ ~Truthy(h.value)
       /\ \E p \in prices : g.value = RMul(p, h.quantity)
  /\ (prices # {} /\ asks(h)) =>
       /\ g.price \in prices
       /\ (Truthy(h.quantity) /\ ~Truthy(h.value) /\ prices # {Zero}) => g.value # h.value

allowed(h, g, quotes) == permitted(h, g, quoted_prices(quotes, symbol_of(h)))

\* C10: enrichment leaves a holding with an empty ticker or a non-zero price
\* unchanged; a holding it fills gets as price the first available of the
\* quote's regular, post-market and pre-market price, a new currency only if
\* its currency was empty, and value = price * quantity only if its quantity
\* is non-zero and its value was falsy; name, ticker, quantity and cost
\* never change.
C10_EnrichmentFrame ==
  (Attempted /\ outcome = "returned") =>
    /\ Len(data.holdings) = Len(parsed)
    /\ \A i \in 1..Len(parsed) :
         allowed(parsed[i], data.holdings[i], answered(replies))

\* ticker ABC, no price, quantity 3, quote 42: price 42, value 126; beside it
\* a holding with a blank ticker that stays as it was
C10_Witness ==
  /\ outcome = "returned" /\ Len(parsed) = 3
  /\ parsed[1].ticker = "ABC" /\ parsed[1].price = Zero /\ parsed[1].quantity = Num(3)
  /\ Len(replies) = 1 /\ replies[1].kind = "ok" /\ Len(replies[1].results) = 1
  /\ data.holdings[1].price = Num(42) /\ data.holdings[1].value = Num(126)
  /\ data.holdings[3] = parsed[3] /\ Strip(parsed[3].ticker) = ""

\* ------------------------------------------------------------------------
\* Totals

\* the totals that are the sums over holdings
totals_summed(holdings, totals) ==
  /\ totals.value = SumField(holdings, "value")
  /\ totals.cost = SumField(holdings, "cost")
  /\ totals.gain_abs = SumField(holdings, "gain_abs")
  /\ totals.gain_pct = (IF totals.cost # Zero
                        THEN RMul(RDiv(totals.gain_abs, totals.cost), Num(100)) ELSE Zero)

\* C11: in every ingestion result, also after quote enrichment, the totals
\* are the sums over the returned holdings: value, cost and gain_abs are the
\* sums of the holdings' fields, and gain_pct = gain_abs / cost * 100 when
\* cost is non-zero, else 0.
C11_TotalsAreSums ==
  (Attempted /\ outcome = "returned") => totals_summed(data.holdings, data.totals)

\* ------------------------------------------------------------------------
\* Repeated ingestion

\* the last attempt read the file as it is now, without live prices
read_as_is == Attempted /\ seen = fs /\ ~enable_live

\* C12: ingestion is idempotent on an unchanged file: with enrichment
\* disabled, an attempt on the content the attempt before it read yields the
\* same outcome, the same holdings and the same totals; nothing accumulates
\* across calls.
C12_IdempotentOnUnchangedFile ==
  [][(read_as_is /\ seen' = fs') => (outcome' = outcome /\ data' = data)]_vars

\* a ledger read without live prices, its position of 8 shares in the result,
\* the file still as it was read
C12_Witness ==
  /\ read_as_is /\ outcome = "returned" /\ tx_route
  /\ \E i \in 1..Len(data.holdings) : data.holdings[i].quantity = Num(8)

\* ------------------------------------------------------------------------
\* Holdings views (SpecCsv): every view of up to MaxViewRows rows whose
\* quantity, price, value, cost and gain cells are empty or filled

MaxViewRows == 1

ViewHeader == "Name;Bestand;Kurs;Wert;Einstand;Gewinn"

ViewRows ==
  { "Alpha;" \o q \o ";" \o p \o ";" \o v \o ";" \o c \o ";" \o g :
      q \in {"", "10"}, p \in {"5", "-1"}, v \in {"", "100"}, c \in {"", "80", "50"},
      g \in {"", "20", "-3"} }

Views == {TextFile(<<ViewHeader>> \o rows) : rows \in SeqsUpTo(ViewRows, MaxViewRows)}

InitCsv ==
  /\ path = "/config/pp/holdings.csv"
  /\ enable_live = FALSE
  /\ fs \in Views
  /\ Constructed

SpecCsv == InitCsv /\ [][Refresh]_vars

\* step (c): the cost, seeing the value and the gain of the steps before
cost_step(h, v, c, g) ==
  /\ h.value = v /\ h.gain_abs = g
  /\ h.cost = (IF c = Zero /\ v # Zero /\ g # Zero THEN RSub(v, g) ELSE c)
  /\ (c # Zero => h.cost = c)

\* step (b): the gain, seeing the value of step (a)
gain_step(h, v, c, g) ==
  /\ cost_step(h, v, c, IF g = Zero /\ v # Zero /\ c # Zero THEN RSub(v, c) ELSE g)
  /\ (g # Zero => h.gain_abs = g)

\* step (a): the value
value_step(h, q, p, v, c, g) ==
  /\ h.quantity = q /\ h.price = p
  /\ gain_step(h, IF v = Zero /\ RLess(Zero, RMul(q, p)) THEN RMul(q, p) ELSE v, c, g)
  /\ (v # Zero => h.value = v)

\* holding h is the row of cells r, reconciled in the order (a), (b), (c)
reconciled(h, r) ==
  value_step(h, parse_num(r[2]), parse_num(r[3]), parse_num(r[4]), parse_num(r[5]),
             parse_num(r[6]))

\* C13: the holdings-CSV reconciliation is applied per row in the order
\* (a) value, (b) gain_abs, (c) cost, each step seeing the result of the one
\* before: value becomes quantity * price only if it was 0 and
\* quantity * price > 0; gain_abs becomes value - cost only if it was 0 and
\* value and cost are non-zero; cost becomes value - gain_abs only if it was
\* 0 and value and gain_abs are non-zero; a field supplied non-zero is never
\* overwritten.
C13_ReconciledInOrder ==
  (Attempted /\ holdings_route /\ seen.lines # <<>> /\ Head(seen.lines) = ViewHeader) =>
    /\ outcome = "returned"
    /\ Len(data.holdings) = Len(seen.lines) - 1
    /\ \A i \in 1..Len(data.holdings) :
         reconciled(data.holdings[i], Split(seen.lines[i + 1], ";"))

\* quantity 10, price 5 and no value give value 50, which with cost 80 gives
\* gain_abs -30
C13_Witness ==
  /\ outcome = "returned" /\ Len(data.holdings) = 1
  /\ Split(seen.lines[2], ";")[4] = "" /\ Split(seen.lines[2], ";")[6] = ""
  /\ data.holdings[1].quantity = Num(10) /\ data.holdings[1].price = Num(5)
  /\ data.holdings[1].value = Num(50) /\ data.holdings[1].cost = Num(80)
  /\ data.holdings[1].gain_abs = Num(-30)

\* ------------------------------------------------------------------------
\* Price scales (SpecScale): latest_price on one security node

MaxPriceDigits == 17

RECURSIVE Nines(_)
Nines(k) == IF k = 0 THEN "" ELSE "9" \o Nines(k - 1)

\* 10^n, 10^n - 1, 10^n + 1 and 5 * 10^n up to MaxPriceDigits digits
RoundTexts ==
  {"1" \o Zeros(n) : n \in 0..MaxPriceDigits - 1}
    \cup {Nines(n) : n \in 1..MaxPriceDigits}
    \cup {"1" \o Zeros(n) \o "1" : n \in 0..MaxPriceDigits - 2}
    \cup {"5" \o Zeros(n) : n \in 0..MaxPriceDigits - 1}

OddTexts == {"0", "-0", "-5", "-100", "+42", " 42 ", "007", "12345", "1.5", "abc", ""}

PriceTexts == RoundTexts \cup OddTexts

\* a security node with its price nodes
Probe(prices) == Security("u-9", "Probe", "PRB", "", "EUR", prices)

ProbeNodes ==
  {Probe(<<>>), Probe(<< <<>> >>)}
    \cup {Probe(<< <<t>> >>) : t \in PriceTexts}
    \cup {Probe(<< <<"12345">>, <<t>> >>) : t \in PriceTexts}

InitScale ==
  /\ path = "/config/pp/portfolio.xml"
  /\ enable_live = FALSE
  /\ fs \in {XmlFile(Doc(<<sec>>, <<>>)) : sec \in ProbeNodes}
  /\ Constructed

\* latest_price(secnode) on the security of the document; data is what it
\* returns
LatestPrice ==
  /\ seen' = fs
  /\ outcome' = "returned"
  /\ data' = latest_scaled(fs.doc.securities[1])
  /\ UNCHANGED <<path, enable_live, status, fs, parsed, requests, replies>>

SpecScale == InitScale /\ [][LatestPrice]_vars

\* the text of the most recent price node of the security last looked at
recent_v(prices) == IF prices[Len(prices)] = <<>> THEN "0" ELSE Strip(prices[Len(prices)][1])

\* text t is the integer v > 0 written without sign or leading zero
positive(t) == t # "" /\ AllDigits(t) /\ Head(t) # "0"

\* 0.01 <= v / 10^k <= 1 000 000 for the positive integer v of digits t:
\* v has at least k - 1 digits, and at most k + 6 or is 10^(k + 6)
within(t, k) ==
  /\ Len(t) >= k - 1
  /\ (Len(t) <= k + 6 \/ t = "1" \o Zeros(k + 6))

\* s = 10^k is the first scale of 10^8, 10^7, ..., 1 that fits v
first_within(t, k) ==
  /\ k \in 0..8
  /\ within(t, k)
  /\ \A j \in (k + 1)..8 : ~within(t, j)

\* the call returned v / 10^k where 10^k is the first fitting scale, or the
\* integer v itself when no scale fits
scale_detected(t, r) ==
  /\ ~IsNone(r)
  /\ r.iv = [neg |-> FALSE, digits |-> t]
  /\ IF \E k \in 0..8 : within(t, k)
     THEN \E k \in 0..8 : first_within(t, k) /\ r.scale = Pow10(k)
     ELSE r.scale = 0

\* C14: for the positive integer v of the most recent price node, the
\* price-scale detection returns v / s for the first s of the descending
\* list 10^8, 10^7, ..., 10, 1 with 0.01 <= v / s <= 1 000 000, and the raw
\* integer v when no scale of the list fits (v > 10^14); for v = 0 and for a
\* negative v no scale fits and it returns the raw integer v.
C14_FirstFittingScale ==
  (outcome = "returned" /\ seen.doc.securities[1].prices # <<>>) =>
    /\ positive(recent_v(seen.doc.securities[1].prices)) =>
         scale_detected(recent_v(seen.doc.securities[1].prices), data)
    /\ recent_v(seen.doc.securities[1].prices) \in {"0", "-5", "-100"} =>
         /\ ~IsNone(data) /\ data.scale = 0
         /\ data.iv.neg = (Head(recent_v(seen.doc.securities[1].prices)) = "-")
         /\ data.iv.digits = unsigned(recent_v(seen.doc.securities[1].prices))

\* 10^14 + 1 is returned as it is: over 10^8 it is above 1 000 000
C14_Witness ==
  /\ outcome = "returned"
  /\ seen.doc.securities[1].prices = << <<"12345">>, <<"1" \o Zeros(13) \o "1">> >>
  /\ data = [iv |-> [neg |-> FALSE, digits |-> "100000000000001"], scale |-> 0]

\* ------------------------------------------------------------------------
\* Missing prices (SpecXml)

\* the price of the n-th security (0: none carries the key as uuid), with 0
\* when it has no price node or an unreadable price value
price_or_zero(securities, n) ==
  IF n = 0 \/ IsNone(latest_price(securities[n])) THEN Zero
  ELSE latest_price(securities[n])

\* holding h is the retained entry e at the price of its own security
degraded(securities, e, h) ==
  /\ h.quantity = e.shares
  /\ h.cost = e.cost
  /\ h.price = price_or_zero(securities, uuid_index(securities, e.key, 1))
  /\ h.value = RMul(h.quantity, h.price)
  /\ h.gain_abs = RSub(h.value, h.cost)

all_degraded(securities, kept, holdings) ==
  /\ Len(holdings) = Len(kept)
  /\ \A i \in 1..Len(kept) : degraded(securities, kept[i], holdings[i])

\* C15: XML ingestion degrades gracefully on missing price data: for every
\* well-formed document the attempt returns, and each retained position
\* (accumulated shares > 0) produces a holding with the price of its own
\* security's most recent price node, or price 0 when that security has no
\* price node, an unreadable price value or no uuid, with
\* value = shares * price and gain_abs = value - cost; the attempt never
\* fails (UpdateFailed).
C15_MissingPriceIsZero ==
  (Attempted /\ seen.kind = "xml" /\ seen.doc.wellformed) =>
    /\ outcome = "returned"
    /\ all_degraded(seen.doc.securities, seen_kept, data.holdings)

====
